---- MODULE Spec2Model ----
(***************************************************************************)
(* Legion: a mutating admission webhook for pods.                          *)
(*                                                                         *)
(* The model covers internal/kubernetes: the HTTP handler                  *)
(* (AdmissionReviewWebhook), the review pipeline (PodMutator.Review), the  *)
(* ignore functions and PodMutation.Patch.  HTTP requests are served       *)
(* concurrently, one goroutine per request; each request is a process that *)
(* walks through the handler and the stages of the review.                 *)
(*                                                                         *)
(* Byte strings (request bodies, raw objects, patches) are sequences of    *)
(* string tokens; error and log messages are sequences of string parts,    *)
(* the message being their concatenation.                                  *)
(***************************************************************************)
EXTENDS Integers, Sequences, FiniteSets, Bags, TLC

\* ------------------------------------------------------------------------
\* Bounds of the model.
\* ------------------------------------------------------------------------
\* Number of HTTP requests in flight at the same time.
MaxReq == 1
\* Longest ignore chain a PodMutator is constructed with.
MaxChain == 2
\* Longest container list of a pod or of a template given to Patch.
MaxContainers == 1
\* Number of reviews that share one PodMutator at the same time.
MaxConcurrent == 2

Requests == 1..MaxReq

\* ------------------------------------------------------------------------
\* Program constants.
\* ------------------------------------------------------------------------
StatusBadRequest == 400
StatusOK == 200

jsonPatch == "JSONPatch"
resourcePod == [Group |-> "", Version |-> "v1", Resource |-> "pods"]

tagResultMutated == "mutated"
tagResultIgnored == "ignored"
tagResultError == "error"

StatusFailure == "Failure"
StatusReasonInvalid == "Invalid"
StatusReasonInternalError == "InternalError"

\* ------------------------------------------------------------------------
\* Errors (github.com/pkg/errors): a message is a sequence of parts.
\* ------------------------------------------------------------------------
NoError == << >>

ErrorsNew(msg) == <<msg>>

ErrorsWrap(err, msg) == <<msg, ": ">> \o err

\* ------------------------------------------------------------------------
\* Pods and their serialized form.
\* ------------------------------------------------------------------------
AnnKeys == {"cool"}
AnnValues == {"true", "nope"}

Annotations == UNION {[D -> AnnValues] : D \in SUBSET AnnKeys}

\* The zero value of core.Pod.  A pod is modelled by its labels and
\* annotations (maps), hostNetwork (a bool), dnsPolicy (a string, "" when
\* unset), dnsConfig (a pointer to a struct: the empty sequence when nil, a
\* sequence holding the struct otherwise) and containers (a slice).
EmptyPod ==
    [labels |-> << >>, annotations |-> << >>, hostNetwork |-> FALSE,
     dnsPolicy |-> "", dnsConfig |-> << >>, containers |-> << >>]

\* &core.PodDNSConfig{Nameservers: ns, Searches: se}.
PodDNSConfig(ns, se) == <<[nameservers |-> ns, searches |-> se]>>

\* core.Container{Name: name, Image: image}.
Container(name, image) == [name |-> name, image |-> image]

\* The pods that requests carry: they set annotations and hostNetwork only.
Pods ==
    {[EmptyPod EXCEPT !.annotations = a, !.hostNetwork = h]
        : a \in Annotations, h \in BOOLEAN}

\* p.GetAnnotations()[k]: a key the map lacks reads as the empty string.
GetAnnotation(pod, k) ==
    IF k \in DOMAIN pod.annotations THEN pod.annotations[k] ELSE ""

\* Field and key names in byte-lexical order; paths and object keys are
\* ordered by it.
Names ==
    <<"0", "1", "10", "11", "2", "3", "4", "5", "6", "7", "8", "9",
      "annotations", "containers", "cool", "creationTimestamp", "dnsConfig",
      "dnsPolicy", "hostNetwork", "image", "labels", "metadata", "name",
      "nameservers", "resources", "searches", "spec", "status", "supercool">>

Rank(s) == CHOOSE i \in 1..Len(Names) : Names[i] = s

\* The keys of a set, as a sequence in ascending order.
RECURSIVE SortedKeys(_)
SortedKeys(S) ==
    IF S = {} THEN << >>
    ELSE LET m == CHOOSE x \in S : \A y \in S : Rank(x) <= Rank(y)
         IN  <<m>> \o SortedKeys(S \ {m})

RECURSIVE AnnotationTokens(_, _)
AnnotationTokens(ann, keys) ==
    IF keys = << >> THEN << >>
    ELSE <<Head(keys), ann[Head(keys)]>> \o AnnotationTokens(ann, Tail(keys))

\* serializer.Encode of a pod of a request (one of Pods): hostNetwork is
\* omitted when false (omitempty), annotations are written as key, value
\* pairs in key order.
EncodePod(pod) ==
    <<"{">>
    \o (IF pod.hostNetwork THEN <<"hostNetwork">> ELSE << >>)
    \o AnnotationTokens(pod.annotations, SortedKeys(DOMAIN pod.annotations))
    \o <<"}">>

ErrEndOfInput ==
    <<"couldn't get version/kind; json parse error: ",
      "unexpected end of JSON input">>
ErrInvalidCharacter ==
    <<"couldn't get version/kind; json parse error: ",
      "invalid character 'i' looking for beginning of value">>

\* The error of serializer.Decode for a token sequence that is no JSON
\* object, NoError otherwise.
DecodeError(b) ==
    IF Len(b) = 0 THEN ErrEndOfInput
    ELSE IF Head(b) # "{" THEN ErrInvalidCharacter
    ELSE IF b[Len(b)] # "}" THEN ErrEndOfInput
    ELSE NoError

\* serializer.Decode into a core.Pod.
DecodePod(raw) ==
    IF DecodeError(raw) # NoError
    THEN [err |-> DecodeError(raw), pod |-> EmptyPod]
    ELSE LET hn == Len(raw) > 2 /\ raw[2] = "hostNetwork"
             first == IF hn THEN 3 ELSE 2
             n == (Len(raw) - first) \div 2
             keys == {raw[first + 2 * (i - 1)] : i \in 1..n}
             valueOf(k) ==
                 LET i == CHOOSE j \in 1..n : raw[first + 2 * (j - 1)] = k
                 IN  raw[first + 2 * (i - 1) + 1]
         IN  [err |-> NoError,
              pod |-> [EmptyPod EXCEPT !.annotations = [k \in keys |-> valueOf(k)],
                                       !.hostNetwork = hn]]

\* ------------------------------------------------------------------------
\* Admission reviews and their serialized form.
\* ------------------------------------------------------------------------
\* GroupVersionResource.String() and GroupVersionKind.String().
ResourceString(res) == <<res.Group, "/", res.Version, ", Resource=", res.Resource>>

KindString(kind) == <<kind.Group, "/", kind.Version, ", Kind=", kind.Kind>>

\* The zero value of admission.AdmissionRequest.
EmptyRequest ==
    [UID |-> "",
     Kind |-> [Group |-> "", Version |-> "", Kind |-> ""],
     Resource |-> [Group |-> "", Version |-> "", Resource |-> ""],
     Namespace |-> "", Name |-> "", Object |-> << >>]

\* serializer.Encode of an admission review carrying a request (or none).
EncodeReview(hasRequest, rq) ==
    IF ~hasRequest THEN <<"{", "}">>
    ELSE <<"{", "request", rq.UID,
           rq.Kind.Group, rq.Kind.Version, rq.Kind.Kind,
           rq.Resource.Group, rq.Resource.Version, rq.Resource.Resource,
           rq.Namespace, rq.Name>>
         \o rq.Object \o <<"}">>

\* serializer.Decode into an admission.AdmissionReview: ar.Request stays
\* nil (hasRequest false) when the review has no request member.
DecodeReview(b) ==
    IF DecodeError(b) # NoError
    THEN [err |-> DecodeError(b), hasRequest |-> FALSE, Request |-> EmptyRequest]
    ELSE IF Len(b) < 12 \/ b[2] # "request"
    THEN [err |-> NoError, hasRequest |-> FALSE, Request |-> EmptyRequest]
    ELSE [err |-> NoError, hasRequest |-> TRUE,
          Request |->
              [UID |-> b[3],
               Kind |-> [Group |-> b[4], Version |-> b[5], Kind |-> b[6]],
               Resource |-> [Group |-> b[7], Version |-> b[8], Resource |-> b[9]],
               Namespace |-> b[10], Name |-> b[11],
               Object |-> SubSeq(b, 12, Len(b) - 1)]]

\* ------------------------------------------------------------------------
\* Ignore functions.  An IgnoreFunc is held as the constructor that made it
\* and the arguments it closed over.
\* ------------------------------------------------------------------------
IgnorePodsInHostNetwork == [fn |-> "IgnorePodsInHostNetwork", k |-> "", v |-> ""]

IgnorePodsWithAnnotation(k, v) == [fn |-> "IgnorePodsWithAnnotation", k |-> k, v |-> v]

IgnorePodsWithoutAnnotation(k, v) ==
    [fn |-> "IgnorePodsWithoutAnnotation", k |-> k, v |-> v]

\* The bodies of the three closures.
InHostNetwork(pod) == pod.hostNetwork

WithAnnotation(pod, k, v) == GetAnnotation(pod, k) = v

WithoutAnnotation(pod, k, v) == GetAnnotation(pod, k) # v

\* The call ignore(pod).
CallIgnore(f, pod) ==
    CASE f.fn = "IgnorePodsInHostNetwork" -> InHostNetwork(pod)
      [] f.fn = "IgnorePodsWithAnnotation" -> WithAnnotation(pod, f.k, f.v)
      [] f.fn = "IgnorePodsWithoutAnnotation" -> WithoutAnnotation(pod, f.k, f.v)

\* ------------------------------------------------------------------------
\* PodMutation.Patch: merge the template into a copy of the pod, serialize
\* both, diff, sort and marshal.
\* ------------------------------------------------------------------------
\* mergo.Merge applies these rules field by field (mergo 0.3.6, pinned by
\* Gopkg.toml); overwrite and append are mergo.WithOverride and
\* mergo.WithAppendSlice.
\*
\* Mutant of MergeMap: keys the map lacks are added only when overwriting.
MergeMapOverwriteOnly(dst, src, overwrite) ==
    [k \in (DOMAIN dst) \cup (IF overwrite THEN DOMAIN src ELSE {}) |->
        IF k \in DOMAIN src /\ overwrite THEN src[k] ELSE dst[k]]

\* A map[string]string: a key of src is set in dst when dst lacks it or
\* holds the empty string, or when overwriting.
MergeMap(dst, src, overwrite) ==
    [k \in (DOMAIN dst) \cup (DOMAIN src) |->
        IF k \in DOMAIN src
           /\ (overwrite \/ k \notin DOMAIN dst \/ dst[k] = "")
        THEN src[k] ELSE dst[k]]

\* Mutant of MergeBool: when overwriting, an unset src is written as well.
MergeBoolWithEmpty(dst, src, overwrite) ==
    IF overwrite \/ (src /\ ~dst) THEN src ELSE dst

\* A bool: a non-zero src is set when dst is zero or when overwriting.
MergeBool(dst, src, overwrite) ==
    IF src /\ (overwrite \/ ~dst) THEN src ELSE dst

\* Mutant of MergeString: a value that is set is never replaced.
MergeStringKeep(dst, src, overwrite) ==
    IF src # "" /\ dst = "" THEN src ELSE dst

\* A string: a non-empty src is set when dst is empty or when overwriting.
MergeString(dst, src, overwrite) ==
    IF src # "" /\ (overwrite \/ dst = "") THEN src ELSE dst

\* Mutant of MergeSlice: a non-empty src replaces dst whether overwriting
\* or not.
MergeSliceReplace(dst, src, overwrite, append) ==
    IF src # << >> /\ ~append THEN src
    ELSE IF append THEN dst \o src
    ELSE dst

\* A slice: without append a non-empty src replaces dst when dst is empty
\* or when overwriting; with append src is appended to dst.
MergeSlice(dst, src, overwrite, append) ==
    IF src # << >> /\ (overwrite \/ dst = << >>) /\ ~append THEN src
    ELSE IF append THEN dst \o src
    ELSE dst

\* A pointer to a struct (dnsConfig): a nil src changes nothing; when dst
\* is nil or when overwriting, dst is set to src itself; otherwise the
\* structs pointed to are merged field by field.
MergePtr(dst, src, overwrite, append) ==
    IF src = << >> THEN dst
    ELSE IF dst = << >> \/ overwrite THEN src
    ELSE <<[nameservers |->
                MergeSlice(dst[1].nameservers, src[1].nameservers, overwrite, append),
            searches |->
                MergeSlice(dst[1].searches, src[1].searches, overwrite, append)]>>

\* mergo.Merge(&injected.ObjectMeta, m.Spec.Template.ObjectMeta, mo...).
MergeObjectMeta(pod, m) ==
    [pod EXCEPT
        !.labels = MergeMap(pod.labels, m.Template.labels, m.Strategy.Overwrite),
        !.annotations =
            MergeMap(pod.annotations, m.Template.annotations, m.Strategy.Overwrite)]

\* mergo.Merge(&injected.Spec, m.Spec.Template.Spec, mo...).
MergeSpec(pod, m) ==
    [pod EXCEPT
        !.hostNetwork =
            MergeBool(pod.hostNetwork, m.Template.hostNetwork, m.Strategy.Overwrite),
        !.dnsPolicy =
            MergeString(pod.dnsPolicy, m.Template.dnsPolicy, m.Strategy.Overwrite),
        !.dnsConfig =
            MergePtr(pod.dnsConfig, m.Template.dnsConfig, m.Strategy.Overwrite,
                     m.Strategy.Append),
        !.containers =
            MergeSlice(pod.containers, m.Template.containers, m.Strategy.Overwrite,
                       m.Strategy.Append)]

\* The two mergo.Merge calls of Patch, on ObjectMeta and on Spec.
Merge(original, m) == MergeSpec(MergeObjectMeta(original, m), m)

\* JSON values: null, strings, bools, objects (a function from member
\* names to values) and arrays (a sequence of values).
JNull == [t |-> "null", s |-> "", m |-> << >>, a |-> << >>]

JString(str) == [t |-> "string", s |-> str, m |-> << >>, a |-> << >>]

JBool(b) == [t |-> "bool", s |-> IF b THEN "true" ELSE "false", m |-> << >>, a |-> << >>]

JObject(members) == [t |-> "object", s |-> "", m |-> members, a |-> << >>]

JArray(items) == [t |-> "array", s |-> "", m |-> << >>, a |-> items]

\* A member written only when present (omitempty).
OmitEmpty(name, present, value) == IF present THEN name :> value ELSE << >>

\* A map[string]string and a []string as JSON.
StringMap(f) == JObject([k \in DOMAIN f |-> JString(f[k])])

StringList(l) == JArray([k \in 1..Len(l) |-> JString(l[k])])

\* A core.Container as JSON: name and resources are always written.
ContainerJSON(c) ==
    JObject(("name" :> JString(c.name))
            @@ OmitEmpty("image", c.image # "", JString(c.image))
            @@ ("resources" :> JObject(<< >>)))

\* serializer.Encode of a pod, as the JSON document jsonpatch unmarshals
\* it to: creationTimestamp, containers and status are written even when
\* unset, every other member is omitted when empty.
ToJSON(pod) ==
    JObject(
        ("metadata" :>
            JObject(("creationTimestamp" :> JNull)
                    @@ OmitEmpty("labels", pod.labels # << >>, StringMap(pod.labels))
                    @@ OmitEmpty("annotations", pod.annotations # << >>,
                                 StringMap(pod.annotations))))
        @@ ("spec" :>
            JObject(("containers" :>
                        IF pod.containers = << >> THEN JNull
                        ELSE JArray([k \in 1..Len(pod.containers) |->
                                        ContainerJSON(pod.containers[k])]))
                    @@ OmitEmpty("dnsPolicy", pod.dnsPolicy # "", JString(pod.dnsPolicy))
                    @@ OmitEmpty("hostNetwork", pod.hostNetwork, JBool(TRUE))
                    @@ OmitEmpty("dnsConfig", pod.dnsConfig # << >>,
                         JObject(OmitEmpty("nameservers",
                                           pod.dnsConfig[1].nameservers # << >>,
                                           StringList(pod.dnsConfig[1].nameservers))
                                 @@ OmitEmpty("searches",
                                              pod.dnsConfig[1].searches # << >>,
                                              StringList(pod.dnsConfig[1].searches))))))
        @@ ("status" :> JObject(<< >>)))

\* strconv.Itoa of an array index, as makePath writes it.
Itoa ==
    <<"0", "1", "2", "3", "4", "5", "6", "7", "8", "9", "10", "11">>

\* makePath(path, i) for the i-th element (counted from 1) of an array.
IndexPath(path, i) == path \o <<Itoa[i]>>

\* jsonpatch.NewPatch.
NewPatch(op, path, value) == [op |-> op, path |-> path, value |-> value]

\* jsonpatch compareArray, for arrays of different lengths: a remove for
\* every element of av that is no element of bv, an add for every element
\* of bv that is no element of av, each at the element's own index.
CompareArray(av, bv, path) ==
    {NewPatch("remove", IndexPath(path, k), JNull)
        : k \in {j \in 1..Len(av) : \A n \in 1..Len(bv) : bv[n] # av[j]}}
    \cup {NewPatch("add", IndexPath(path, k), bv[k])
            : k \in {j \in 1..Len(bv) : \A n \in 1..Len(av) : av[n] # bv[j]}}

\* jsonpatch diff and handleValues: the operations that turn the object
\* with members a into the one with members b, as a set (the library
\* ranges over Go maps, so it emits them in no fixed order).
RECURSIVE Diff(_, _, _)
RECURSIVE HandleValues(_, _, _)
Diff(a, b, path) ==
    UNION {IF k \notin DOMAIN a THEN {NewPatch("add", path \o <<k>>, b[k])}
           ELSE IF a[k].t # b[k].t THEN {NewPatch("replace", path \o <<k>>, b[k])}
           ELSE HandleValues(a[k], b[k], path \o <<k>>)
             : k \in DOMAIN b}
    \cup {NewPatch("remove", path \o <<k>>, JNull) : k \in (DOMAIN a) \ (DOMAIN b)}

HandleValues(av, bv, path) ==
    CASE av.t = "object" -> Diff(av.m, bv.m, path)
      [] av.t \in {"string", "bool"} ->
            IF av = bv THEN {} ELSE {NewPatch("replace", path, bv)}
      [] av.t = "array" ->
            IF Len(av.a) # Len(bv.a) THEN CompareArray(av.a, bv.a, path)
            ELSE UNION {HandleValues(av.a[k], bv.a[k], IndexPath(path, k))
                          : k \in 1..Len(av.a)}
      [] av.t = "null" ->
            IF bv.t = "null" THEN {} ELSE {NewPatch("add", path, bv)}

\* jsonpatch.CreatePatch(a, b) for two JSON objects.
CreatePatch(a, b) == Diff(a.m, b.m, << >>)

\* jsonpatch.ByPath.Less: byte-wise comparison of the path strings.  The
\* names of the model hold letters and digits only, all greater than "/",
\* so comparing name by name gives the same order.
RECURSIVE PathLess(_, _)
PathLess(p, q) ==
    IF p = << >> THEN q # << >>
    ELSE IF q = << >> THEN FALSE
    ELSE IF Head(p) = Head(q) THEN PathLess(Tail(p), Tail(q))
    ELSE Rank(Head(p)) < Rank(Head(q))

\* Mutant of SortByPath: the operations are ordered by kind (adds, then
\* removes, then replaces) before they are ordered by path.
RECURSIVE SortByKind(_)
SortByKind(ops) ==
    IF ops = {} THEN {<< >>}
    ELSE LET kind(o) == CASE o.op = "add" -> 1 [] o.op = "remove" -> 2
                          [] o.op = "replace" -> 3
             least == CHOOSE x \in ops :
                         \A y \in ops :
                             \/ kind(x) < kind(y)
                             \/ kind(x) = kind(y) /\ ~PathLess(y.path, x.path)
         IN  {<<least>> \o rest : rest \in SortByKind(ops \ {least})}

\* sort.Sort(jsonpatch.ByPath(patch)): the orders the sort can leave the
\* operations in.  ByPath.Less compares paths only and sort.Sort is not
\* stable, so operations of equal paths end in either order, whatever the
\* order the diff emitted them in.
RECURSIVE SortByPath(_)
SortByPath(ops) ==
    IF ops = {} THEN {<< >>}
    ELSE UNION {{<<least>> \o rest : rest \in SortByPath(ops \ {least})}
                  : least \in {x \in ops : \A y \in ops : ~PathLess(y.path, x.path)}}

\* A path as a JSON pointer string.
RECURSIVE PathString(_)
PathString(path) ==
    IF path = << >> THEN << >>
    ELSE <<"/", Head(path)>> \o PathString(Tail(path))

\* json.Marshal of a value: an object is written as its members in key
\* order, an array as its elements in order.
RECURSIVE MarshalValue(_)
RECURSIVE MarshalMembers(_, _)
RECURSIVE MarshalItems(_)
MarshalValue(v) ==
    CASE v.t = "object" ->
            <<"{">> \o MarshalMembers(v.m, SortedKeys(DOMAIN v.m)) \o <<"}">>
      [] v.t = "array" -> <<"[">> \o MarshalItems(v.a) \o <<"]">>
      [] v.t = "null" -> <<"null">>
      [] OTHER -> <<v.s>>

MarshalMembers(members, keys) ==
    IF keys = << >> THEN << >>
    ELSE <<Head(keys), ":">> \o MarshalValue(members[Head(keys)])
         \o MarshalMembers(members, Tail(keys))

MarshalItems(items) ==
    IF items = << >> THEN << >>
    ELSE MarshalValue(Head(items)) \o MarshalItems(Tail(items))

\* Mutant of MarshalOperation: only a replace carries its value.
MarshalOperationReplaceValue(o) ==
    <<"{", "op", o.op, "path">> \o PathString(o.path)
    \o (IF o.op # "replace" THEN << >> ELSE <<"value">> \o MarshalValue(o.value))
    \o <<"}">>

\* json.Marshal of one operation; a remove carries no value.
MarshalOperation(o) ==
    <<"{", "op", o.op, "path">> \o PathString(o.path)
    \o (IF o.op = "remove" THEN << >> ELSE <<"value">> \o MarshalValue(o.value))
    \o <<"}">>

RECURSIVE MarshalOperations(_)
MarshalOperations(ops) ==
    IF ops = << >> THEN << >>
    ELSE MarshalOperation(Head(ops)) \o MarshalOperations(Tail(ops))

\* json.Marshal(patch).
MarshalPatch(ops) == <<"[">> \o MarshalOperations(ops) \o <<"]">>

\* The library calls of Patch that return an error, and the step that
\* fails ("none": every call succeeds).
PatchFailures ==
    {"none", "merge metadata", "merge spec", "encode original",
     "encode patched", "create patch", "marshal"}

\* What Patch wraps the error of the failing step in.
PatchErrorContext(fail) ==
    CASE fail = "merge metadata" -> "cannot inject pod metadata"
      [] fail = "merge spec" -> "cannot inject pod spec"
      [] fail = "encode original" -> "cannot encode original pod as JSON"
      [] fail = "encode patched" -> "cannot encode patched pod as JSON"
      [] fail = "create patch" -> "cannot create patch"
      [] fail = "marshal" -> "cannot encode patch as JSON"

\* The error the failing library call returns.
LibraryError(fail) == <<"boom">>

\* Mutant of PatchLocals: injected is a shallow copy of original, so the
\* two share their maps and what is merged into the maps of injected shows
\* in original.
PatchLocalsShallow(m, original, fail) ==
    LET meta == IF fail = "merge metadata" THEN original
                ELSE MergeObjectMeta(original, m)
        full == IF fail \in {"merge metadata", "merge spec"} THEN meta
                ELSE MergeSpec(meta, m)
    IN  [original |-> [original EXCEPT !.labels = full.labels,
                                       !.annotations = full.annotations],
         injected |-> full]

\* The locals of Patch once the merging is over: original, and injected,
\* the deep copy of original (original.DeepCopyInto(&injected)) that the
\* template was merged into.  A merge that fails leaves injected as it was
\* before the call.
PatchLocals(m, original, fail) ==
    LET meta == IF fail = "merge metadata" THEN original
                ELSE MergeObjectMeta(original, m)
        full == IF fail \in {"merge metadata", "merge spec"} THEN meta
                ELSE MergeSpec(meta, m)
    IN  [original |-> original, injected |-> full]

\* Mutant of PatchReceiver: the maps of injected are the template's own
\* maps, so what is merged into them shows in the template.
PatchReceiverShared(m, original, fail) ==
    LET merged == PatchLocals(m, original, fail).injected
    IN  [m EXCEPT !.Template.labels = merged.labels,
                  !.Template.annotations = merged.annotations]

\* The receiver of Patch once the call is over.  Patch has a value
\* receiver; mergo.Merge reads the template (its src) and writes to
\* injected (its dst) only, and nothing else in Patch assigns to m.
PatchReceiver(m, original, fail) == m

\* Mutant of Patch: when marshalling fails, the bytes written so far are
\* returned next to the error.
PatchPartial(m, original, fail) ==
    IF fail # "none"
    THEN {[bytes |-> IF fail = "marshal" THEN <<"[">> ELSE << >>,
           err |-> ErrorsWrap(LibraryError(fail), PatchErrorContext(fail))]}
    ELSE LET locals == PatchLocals(m, original, fail)
             patch == CreatePatch(ToJSON(locals.original), ToJSON(locals.injected))
         IN  {[bytes |-> MarshalPatch(sorted), err |-> NoError]
                : sorted \in SortByPath(patch)}

\* PodMutation.Patch(original): the patch bytes and the error, as the set
\* of what the call can return (one result for each order sort.Sort can
\* leave the operations in).
Patch(m, original, fail) ==
    IF fail # "none"
    THEN {[bytes |-> << >>,
           err |-> ErrorsWrap(LibraryError(fail), PatchErrorContext(fail))]}
    ELSE LET locals == PatchLocals(m, original, fail)
             patch == CreatePatch(ToJSON(locals.original), ToJSON(locals.injected))
         IN  {[bytes |-> MarshalPatch(sorted), err |-> NoError]
                : sorted \in SortByPath(patch)}

\* Mutant of admissionError: the rejection is marked allowed.
admissionErrorAllowed(err, reason) ==
    [UID |-> "", Allowed |-> TRUE, Patch |-> << >>, PatchType |-> "",
     Result |-> <<[Status |-> StatusFailure, Reason |-> reason, Message |-> err]>>]

\* ------------------------------------------------------------------------
\* Admission responses.
\* ------------------------------------------------------------------------
\* Result is a sequence holding the meta.Status, empty when Result is nil;
\* Patch is empty when nil and PatchType is "" when nil.
admissionError(err, reason) ==
    [UID |-> "", Allowed |-> FALSE, Patch |-> << >>, PatchType |-> "",
     Result |-> <<[Status |-> StatusFailure, Reason |-> reason, Message |-> err]>>]

\* Mutant of ResourceError: the message names the expected and the
\* observed resource.
ResourceErrorNaming(res) ==
    <<"cannot review non-pod resource", ": expected ">> \o ResourceString(resourcePod)
    \o <<", observed ">> \o ResourceString(res)

\* What Review returns for a resource that is not the pod resource.
ResourceError(res) == ErrorsNew("cannot review non-pod resource")

ResourceRejection(res) == admissionError(ResourceError(res), StatusReasonInvalid)

\* Mutant of DecodeRejection: the decoder's error is dropped.
DecodeRejectionBare(err) ==
    admissionError(ErrorsNew("cannot decode object as a pod"), StatusReasonInvalid)

\* What Review returns when the object does not decode, err being the
\* decoder's error.
DecodeRejection(err) ==
    admissionError(ErrorsWrap(err, "cannot decode object as a pod"), StatusReasonInvalid)

\* What Review returns for an ignored pod.
IgnoredResponse(rq) ==
    [UID |-> "", Allowed |-> TRUE, Patch |-> << >>, PatchType |-> "", Result |-> << >>]

\* What Review returns when Patch returned err.
PatchRejection(err) ==
    admissionError(ErrorsWrap(err, "cannot patch pod"), StatusReasonInternalError)

\* Mutant of MutatedResponse: the patch type is left unset.
MutatedResponseUntyped(rq, patch) ==
    [UID |-> rq.UID, Allowed |-> TRUE, Patch |-> patch, PatchType |-> "",
     Result |-> << >>]

\* What Review returns for a patched pod.
MutatedResponse(rq, patch) ==
    [UID |-> rq.UID, Allowed |-> TRUE, Patch |-> patch, PatchType |-> jsonPatch,
     Result |-> << >>]

\* Mutant of NotPodResource: only the resource name is compared.
NotPodResourceByName(res) == res.Resource # resourcePod.Resource

\* The condition of the resource check, ar.Resource != resourcePod.
NotPodResource(res) == res # resourcePod

\* tag.New(... TagKind, TagNamespace, TagName) followed by the upsert of
\* TagResult.
Tags(rq, result) ==
    [kind |-> KindString(rq.Kind), namespace |-> rq.Namespace, name |-> rq.Name,
     result |-> result]

\* Mutant of Record: rejections are not recorded.
RecordUnlessError(measured, tags) ==
    IF tags.result = tagResultError THEN measured ELSE measured (+) SetToBag({tags})

\* stats.Record(tags, MeasurePodsReviewed.M(1)) on the measurements so far.
Record(measured, tags) == measured (+) SetToBag({tags})

\* serializer.Encode of the admission review carrying the response.
EncodeResponse(rsp) ==
    <<"{", "response", "uid", rsp.UID, "allowed",
      IF rsp.Allowed THEN "true" ELSE "false">>
    \o (IF rsp.Patch = << >> THEN << >> ELSE <<"patch">> \o rsp.Patch)
    \o (IF rsp.PatchType = "" THEN << >> ELSE <<"patchType", rsp.PatchType>>)
    \o (IF rsp.Result = << >> THEN << >>
        ELSE <<"status", rsp.Result[1].Status, "reason", rsp.Result[1].Reason,
               "message">> \o rsp.Result[1].Message)
    \o <<"}">>

\* The zero value of admission.AdmissionResponse.
EmptyResponse ==
    [UID |-> "", Allowed |-> FALSE, Patch |-> << >>, PatchType |-> "", Result |-> << >>]

\* ------------------------------------------------------------------------
\* Inputs: the mutator's configuration and the requests clients send.
\* ------------------------------------------------------------------------
EmptyTemplate == EmptyPod

PodMutations ==
    {[Template |-> EmptyTemplate, Strategy |-> [Overwrite |-> FALSE, Append |-> FALSE]],
     [Template |-> [EmptyPod EXCEPT !.annotations = [k \in {"cool"} |-> "true"],
                                    !.hostNetwork = TRUE],
      Strategy |-> [Overwrite |-> TRUE, Append |-> FALSE]]}

IgnoreFuncs ==
    {IgnorePodsInHostNetwork, IgnorePodsWithAnnotation("cool", "nope"),
     IgnorePodsWithoutAnnotation("cool", "true")}

IgnoreChains == UNION {[1..n -> IgnoreFuncs] : n \in 0..MaxChain}

Resources ==
    {resourcePod,
     [Group |-> "", Version |-> "v1", Resource |-> "configmaps"],
     [Group |-> "extensions", Version |-> "v1", Resource |-> "pods"]}

KindOf(res) ==
    [Group |-> res.Group, Version |-> res.Version,
     Kind |-> IF res.Resource = "pods" THEN "Pod" ELSE "ConfigMap"]

RawObjects == {<< >>, <<"imastring!">>} \cup {EncodePod(pd) : pd \in Pods}

NewRequest(res, raw) ==
    [UID |-> "cooluid", Kind |-> KindOf(res), Resource |-> res,
     Namespace |-> "coolnamespace", Name |-> "coolpod", Object |-> raw]

\* Requests for another resource than pods carry one object, a pod that
\* the ignore chain and the patcher would both act on.
AdmissionRequests ==
    {NewRequest(resourcePod, raw) : raw \in RawObjects}
    \cup {NewRequest(res, EncodePod([EmptyPod EXCEPT
                                        !.annotations = [k \in {"cool"} |-> "nope"],
                                        !.hostNetwork = TRUE]))
            : res \in Resources \ {resourcePod}}

Bodies ==
    {<< >>, <<"imastring!">>, EncodeReview(FALSE, EmptyRequest)}
    \cup {EncodeReview(TRUE, rq) : rq \in AdmissionRequests}

\* The pods and the mutations Patch is called with on its own.  A pod is
\* put together from a choice for its metadata, its scalar fields, its
\* dnsConfig and its containers.
Containers ==
    {Container("coolcontainer", "coolimage:coolest"),
     Container("coolercontainer", "extracool:somehowmorecool")}

ContainerLists == UNION {[1..n -> Containers] : n \in 0..MaxContainers}

NewPod(md, sc, dc, cs) ==
    [labels |-> md.labels, annotations |-> md.annotations,
     hostNetwork |-> sc.hostNetwork, dnsPolicy |-> sc.dnsPolicy,
     dnsConfig |-> dc, containers |-> cs]

NoMetadata == [labels |-> << >>, annotations |-> << >>]

\* A pod with nine containers, and a template with two more.
NineContainers ==
    [k \in 1..9 |->
        Container(<<"c1", "c2", "c3", "c4", "c5", "c6", "c7", "c8", "c9">>[k],
                  "coolimage:coolest")]

TwoContainers ==
    <<Container("coolercontainer", "extracool:somehowmorecool"),
      Container("coolestcontainer", "extracool:somehowmorecool")>>

NoScalars == [hostNetwork |-> FALSE, dnsPolicy |-> ""]

Originals ==
    {NewPod(md, sc, dc, cs) :
        md \in {NoMetadata,
                [labels |-> [k \in {"cool"} |-> "true"],
                 annotations |-> [k \in {"cool"} |-> "true"]],
                [labels |-> << >>, annotations |-> [k \in {"cool"} |-> ""]]},
        sc \in {NoScalars, [hostNetwork |-> TRUE, dnsPolicy |-> "ClusterFirst"]},
        dc \in {<< >>, PodDNSConfig(<<"8.8.8.8">>, <<"cool.local">>),
                PodDNSConfig(<< >>, <<"cool.local">>)},
        cs \in ContainerLists}
    \cup {[EmptyPod EXCEPT !.containers = NineContainers]}

Templates ==
    {NewPod(md, sc, dc, cs) :
        md \in {NoMetadata,
                [labels |-> [k \in {"cool"} |-> "nope"],
                 annotations |-> [k \in {"cool"} |-> "nope"]],
                [labels |-> << >>, annotations |-> [k \in {"supercool"} |-> "alsotrue"]]},
        sc \in {NoScalars, [hostNetwork |-> TRUE, dnsPolicy |-> "None"]},
        dc \in {<< >>, PodDNSConfig(<<"127.0.0.1">>, << >>),
                PodDNSConfig(<<"127.0.0.1", "1.1.1.1">>, << >>)},
        cs \in ContainerLists}
    \cup {[EmptyPod EXCEPT !.containers = TwoContainers]}

Strategies == [Overwrite : BOOLEAN, Append : BOOLEAN]

Mutations == [Template : Templates, Strategy : Strategies]

\* The ignore functions and the pods they are called with on their own;
\* KEY=VALUE flags may carry an empty value.
IgnoreKeys == {"cool", "supercool"}
IgnoreValues == {"", "true", "nope"}

AnyIgnoreFuncs ==
    {IgnorePodsInHostNetwork}
    \cup {IgnorePodsWithAnnotation(k, v) : k \in IgnoreKeys, v \in IgnoreValues}
    \cup {IgnorePodsWithoutAnnotation(k, v) : k \in IgnoreKeys, v \in IgnoreValues}

IgnoredPods ==
    {[EmptyPod EXCEPT !.annotations = a, !.hostNetwork = h]
        : a \in UNION {[D -> IgnoreValues] : D \in SUBSET AnnKeys}, h \in BOOLEAN}

\* What a Reviewer of any kind may return.
coolPatch == <<"coolpatch">>

Responses ==
    [UID : {"", "cooluid"}, Allowed : BOOLEAN, Patch : {<< >>, coolPatch},
     PatchType : {"", jsonPatch},
     Result : {<< >>, <<[Status |-> StatusFailure, Reason |-> StatusReasonInvalid,
                         Message |-> <<"boom">>]>>}]

\* ------------------------------------------------------------------------
\* State.
\* ------------------------------------------------------------------------
VARIABLES
    p,          \* PodMutator.p: the PodMutation that patches
    ignore,     \* PodMutator.ignore: the chain of ignore functions
    pc,         \* where each request is in the handler and in Review
    body,       \* the handler's locals b, err: what ioutil.ReadAll returned
    ar,         \* Review's argument: the decoded admission request
    pod,        \* Review's local: the decoded pod
    i,          \* Review's loop index into the ignore chain
    patched,    \* Review's locals patch, err: what Patch returned
    rsp,        \* what Review returned
    http,       \* what the handler wrote: status code and body
    measured,   \* the measurements recorded by stats.Record
    logged,     \* the log entries written for each request
    recorded,   \* history: the result tags each request recorded, in order
    calls,      \* history: how often each request called Review and Patch,
                \* and the ignore functions it called, in order
    m,          \* a call of Patch on its own: the receiver
    original,   \* Patch's parameter, as it is now
    injected,   \* Patch's local: the copy the template is merged into
    got,        \* what Patch returned
    stage,      \* where the call of Patch is
    given,      \* history: the pod Patch was called with
    ignoreFn,   \* a call of an ignore function on its own: the function
    ignorePod,  \* its argument, as it is now
    ignored,    \* what it returned
    ignoreStage,\* where the call is
    config,     \* main: what reading and decoding the configuration file gives
    gpc,        \* main: where the function of each endpoint passed to g.Go is
    srv,        \* main: the http.Server of each endpoint
    watch,      \* main: the goroutine of each endpoint that waits for ctx.Done()
    ctxDone,    \* main: whether the errgroup's context is cancelled
    firstErr,   \* main: the errgroup's error, the first one returned
    exit        \* main: the error the process reported when it exited

vars ==
    <<p, ignore, pc, body, ar, pod, i, patched, rsp, http, measured, logged,
      recorded, calls, m, original, injected, got, stage, given, ignoreFn,
      ignorePod, ignored, ignoreStage, config, gpc, srv, watch, ctxDone,
      firstErr, exit>>

\* The state of a review, and the state of a call of Patch on its own.
reviewVars ==
    <<p, ignore, pc, body, ar, pod, i, patched, rsp, http, measured, logged,
      recorded, calls>>

patchVars == <<m, original, injected, got, stage, given>>

\* The state of a call of an ignore function on its own.
ignoreVars == <<ignoreFn, ignorePod, ignored, ignoreStage>>

\* The state of main.
mainVars == <<config, gpc, srv, watch, ctxDone, firstErr, exit>>

\* The two endpoints main serves: /metrics and /healthz over HTTP, and
\* /webhook over HTTPS.
Endpoints == {"insecure", "webhook"}

NoCalls == [review |-> 0, ignore |-> << >>, patch |-> 0]

NoPatch == [bytes |-> << >>, err |-> NoError]

NoReply == [code |-> 0, body |-> << >>]

NoBody == [b |-> << >>, err |-> NoError]

\* No call of Patch on its own is under way.
NoPatchCall ==
    /\ m = [Template |-> EmptyTemplate, Strategy |-> [Overwrite |-> FALSE, Append |-> FALSE]]
    /\ original = EmptyPod
    /\ injected = EmptyPod
    /\ got = NoPatch
    /\ stage = "none"
    /\ given = EmptyPod

\* No call of an ignore function on its own is under way.
NoIgnoreCall ==
    /\ ignoreFn = IgnorePodsInHostNetwork
    /\ ignorePod = EmptyPod
    /\ ignored = FALSE
    /\ ignoreStage = "none"

\* main is not running.
NoMain ==
    /\ config = "ok"
    /\ gpc = [e \in Endpoints |-> "none"]
    /\ srv = [e \in Endpoints |-> "none"]
    /\ watch = [e \in Endpoints |-> "none"]
    /\ ctxDone = FALSE
    /\ firstErr = NoError
    /\ exit = NoError

Init ==
    /\ NoPatchCall
    /\ NoIgnoreCall
    /\ NoMain
    /\ p \in PodMutations
    /\ ignore \in IgnoreChains
    /\ pc = [r \in Requests |-> "idle"]
    /\ body = [r \in Requests |-> NoBody]
    /\ ar = [r \in Requests |-> EmptyRequest]
    /\ pod = [r \in Requests |-> EmptyPod]
    /\ i = [r \in Requests |-> 1]
    /\ patched = [r \in Requests |-> NoPatch]
    /\ rsp = [r \in Requests |-> EmptyResponse]
    /\ http = [r \in Requests |-> NoReply]
    /\ measured = EmptyBag
    /\ logged = [r \in Requests |-> << >>]
    /\ recorded = [r \in Requests |-> << >>]
    /\ calls = [r \in Requests |-> NoCalls]

\* http.Error(w, msg, code).
HttpError(msg, code) == [code |-> code, body |-> msg \o <<"\n">>]

\* ------------------------------------------------------------------------
\* AdmissionReviewWebhook: the handler up to the call of r.Review.
\* ------------------------------------------------------------------------
\* ioutil.ReadAll(rq.Body): the bytes read and the error, for a body b
\* whose read fails (before any byte arrived) or not.
ReadAll(b, readFails) ==
    IF readFails THEN [b |-> << >>, err |-> <<"unexpected EOF">>]
    ELSE [b |-> b, err |-> NoError]

\* Mutant of WebhookReply: a review without a request is let through.
WebhookReplyNoRequestCheck(read) ==
    IF read.err # NoError
    THEN HttpError(ErrorsWrap(read.err, "cannot read request body"), StatusBadRequest)
    ELSE IF Len(read.b) = 0
    THEN HttpError(<<"cannot parse empty request body">>, StatusBadRequest)
    ELSE IF DecodeReview(read.b).err # NoError
    THEN HttpError(ErrorsWrap(DecodeReview(read.b).err,
                              "cannot decode request body as admission review"),
                   StatusBadRequest)
    ELSE NoReply

\* The reply of the handler's checks, NoReply when they all pass.
WebhookReply(read) ==
    IF read.err # NoError
    THEN HttpError(ErrorsWrap(read.err, "cannot read request body"), StatusBadRequest)
    ELSE IF Len(read.b) = 0
    THEN HttpError(<<"cannot parse empty request body">>, StatusBadRequest)
    ELSE IF DecodeReview(read.b).err # NoError
    THEN HttpError(ErrorsWrap(DecodeReview(read.b).err,
                              "cannot decode request body as admission review"),
                   StatusBadRequest)
    ELSE IF ~DecodeReview(read.b).hasRequest
    THEN HttpError(<<"admission review must contain a request">>, StatusBadRequest)
    ELSE NoReply

AdmissionReviewWebhook(r, b, readFails) ==
    /\ pc[r] = "idle"
    /\ body' = [body EXCEPT ![r] = ReadAll(b, readFails)]
    /\ IF WebhookReply(body'[r]) # NoReply
       THEN /\ http' = [http EXCEPT ![r] = WebhookReply(body'[r])]
            /\ pc' = [pc EXCEPT ![r] = "done"]
            /\ UNCHANGED <<ar, calls>>
       ELSE /\ ar' = [ar EXCEPT ![r] = DecodeReview(body'[r].b).Request]
            /\ calls' = [calls EXCEPT ![r].review = @ + 1]
            /\ pc' = [pc EXCEPT ![r] = "Review"]
            /\ UNCHANGED http
    /\ UNCHANGED <<p, ignore, pod, i, patched, rsp, measured, logged, recorded>>
    /\ UNCHANGED patchVars
    /\ UNCHANGED ignoreVars
    /\ UNCHANGED mainVars

\* ------------------------------------------------------------------------
\* PodMutator.Review, one action per stage.
\* ------------------------------------------------------------------------
\* A log entry: the message and the fields, each a name and a value.
LogEntry(msg, fields) == [msg |-> msg, fields |-> fields]

\* The entry logged for a resource that is not the pod resource.
ResourceLog(res) ==
    LogEntry("cannot review non-pod resource",
             {<<"expected", ResourceString(resourcePod)>>,
              <<"observed", ResourceString(res)>>})

\* Mutant of WriteReview: the review written carries the response without
\* its result.
WriteReviewWithoutResult(rs) ==
    [code |-> StatusOK, body |-> EncodeResponse([rs EXCEPT !.Result = << >>])]

\* The last statement of the handler: the review carrying the response rs
\* that the Reviewer returned is encoded to the response writer.
WriteReview(rs) == [code |-> StatusOK, body |-> EncodeResponse(rs)]

\* Review logs entry, records the result tag and returns rs to the
\* handler, which writes the review carrying it (serializer.Encode).
Return(r, rs, result, entry) ==
    /\ logged' = [logged EXCEPT ![r] = Append(@, entry)]
    /\ measured' = Record(measured, Tags(ar[r], result))
    /\ recorded' = [recorded EXCEPT ![r] = Append(@, result)]
    /\ rsp' = [rsp EXCEPT ![r] = rs]
    /\ http' = [http EXCEPT ![r] = WriteReview(rs)]
    /\ pc' = [pc EXCEPT ![r] = "done"]

\* The resource check.
ReviewResource(r) ==
    /\ pc[r] = "Review"
    /\ IF NotPodResource(ar[r].Resource)
       THEN Return(r, ResourceRejection(ar[r].Resource), tagResultError,
                   ResourceLog(ar[r].Resource))
       ELSE /\ pc' = [pc EXCEPT ![r] = "Decode"]
            /\ UNCHANGED <<rsp, measured, recorded, logged, http>>
    /\ UNCHANGED <<p, ignore, body, ar, pod, i, patched, calls>>
    /\ UNCHANGED patchVars
    /\ UNCHANGED ignoreVars
    /\ UNCHANGED mainVars

\* Decoding ar.Object.Raw into a pod.
ReviewDecode(r) ==
    /\ pc[r] = "Decode"
    /\ LET d == DecodePod(ar[r].Object)
       IN  IF d.err # NoError
           THEN /\ Return(r, DecodeRejection(d.err), tagResultError,
                          LogEntry("cannot decode object as a pod", {<<"error", d.err>>}))
                /\ UNCHANGED pod
           ELSE /\ pod' = [pod EXCEPT ![r] = d.pod]
                /\ pc' = [pc EXCEPT ![r] = "Ignore"]
                /\ UNCHANGED <<rsp, measured, recorded, logged, http>>
    /\ UNCHANGED <<p, ignore, body, ar, i, patched, calls>>
    /\ UNCHANGED patchVars
    /\ UNCHANGED ignoreVars
    /\ UNCHANGED mainVars

\* Mutant of LoopDone: the loop stops one function early.
LoopDoneEarly(idx, chain) == idx >= Len(chain)

\* Mutant of LoopNext: every other function is skipped.
LoopNextSkipping(idx) == idx + 2

\* The range loop over the ignore chain: whether it is over at index idx,
\* and the index after idx.
LoopDone(idx, chain) == idx > Len(chain)

LoopNext(idx) == idx + 1

\* One iteration of the loop over the ignore chain.
ReviewIgnore(r) ==
    /\ pc[r] = "Ignore"
    /\ ~LoopDone(i[r], ignore)
    /\ calls' = [calls EXCEPT ![r].ignore = Append(@, i[r])]
    /\ IF CallIgnore(ignore[i[r]], pod[r])
       THEN /\ Return(r, IgnoredResponse(ar[r]), tagResultIgnored,
                      LogEntry("not mutating ignored pod", {}))
            /\ UNCHANGED i
       ELSE /\ i' = [i EXCEPT ![r] = LoopNext(@)]
            /\ UNCHANGED <<rsp, measured, recorded, logged, http, pc>>
    /\ UNCHANGED <<p, ignore, body, ar, pod, patched>>
    /\ UNCHANGED patchVars
    /\ UNCHANGED ignoreVars
    /\ UNCHANGED mainVars

\* The call of m.p.Patch(pod) after the loop, and the return of its
\* outcome; fail is the library call of Patch that returns an error, if any.
ReviewPatch(r, fail) ==
    /\ pc[r] = "Ignore"
    /\ LoopDone(i[r], ignore)
    /\ calls' = [calls EXCEPT ![r].patch = @ + 1]
    /\ \E out \in Patch(p, pod[r], fail) :
           /\ patched' = [patched EXCEPT ![r] = out]
           /\ IF out.err # NoError
              THEN Return(r, PatchRejection(out.err), tagResultError,
                          LogEntry("cannot patch pod", {<<"error", out.err>>}))
              ELSE Return(r, MutatedResponse(ar[r], out.bytes), tagResultMutated,
                          LogEntry("mutated pod", {}))
    /\ p' = PatchReceiver(p, pod[r], fail)
    /\ UNCHANGED <<ignore, body, ar, pod, i>>
    /\ UNCHANGED patchVars
    /\ UNCHANGED ignoreVars
    /\ UNCHANGED mainVars

Next ==
    \E r \in Requests :
        \/ \E b \in Bodies, readFails \in BOOLEAN : AdmissionReviewWebhook(r, b, readFails)
        \/ ReviewResource(r)
        \/ ReviewDecode(r)
        \/ ReviewIgnore(r)
        \/ \E fail \in PatchFailures : ReviewPatch(r, fail)

Spec == Init /\ [][Next]_vars

\* ------------------------------------------------------------------------
\* Reviews served at the same time by one PodMutator: net/http runs the
\* handler of every request in a goroutine of its own.
\* ------------------------------------------------------------------------
Reviews == 1..MaxConcurrent

ConcurrentChains ==
    {<< >>, <<IgnorePodsInHostNetwork, IgnorePodsWithAnnotation("cool", "nope")>>}

ConcurrentBodies ==
    {EncodeReview(TRUE, NewRequest(res, EncodePod(pd))) :
        res \in {resourcePod},
        pd \in {EmptyPod,
                [EmptyPod EXCEPT !.annotations = [k \in {"cool"} |-> "nope"]],
                [EmptyPod EXCEPT !.hostNetwork = TRUE]}}
    \cup {EncodeReview(TRUE, NewRequest(resourcePod, <<"imastring!">>))}

ConcurrentInit ==
    /\ NoPatchCall
    /\ NoIgnoreCall
    /\ NoMain
    /\ p \in PodMutations
    /\ ignore \in ConcurrentChains
    /\ pc = [r \in Reviews |-> "idle"]
    /\ body = [r \in Reviews |-> NoBody]
    /\ ar = [r \in Reviews |-> EmptyRequest]
    /\ pod = [r \in Reviews |-> EmptyPod]
    /\ i = [r \in Reviews |-> 1]
    /\ patched = [r \in Reviews |-> NoPatch]
    /\ rsp = [r \in Reviews |-> EmptyResponse]
    /\ http = [r \in Reviews |-> NoReply]
    /\ measured = EmptyBag
    /\ logged = [r \in Reviews |-> << >>]
    /\ recorded = [r \in Reviews |-> << >>]
    /\ calls = [r \in Reviews |-> NoCalls]

ConcurrentNext ==
    \E r \in Reviews :
        \/ \E b \in ConcurrentBodies : AdmissionReviewWebhook(r, b, FALSE)
        \/ ReviewResource(r)
        \/ ReviewDecode(r)
        \/ ReviewIgnore(r)
        \/ \E fail \in PatchFailures : ReviewPatch(r, fail)

ConcurrentSpec == ConcurrentInit /\ [][ConcurrentNext]_vars

\* ------------------------------------------------------------------------
\* The handler serving a Reviewer of any kind.
\* ------------------------------------------------------------------------
\* r.Review(ar.Request) of a Reviewer that returns rs, and the handler
\* writing the review that carries it.
ReviewerReview(r, rs) ==
    /\ pc[r] = "Review"
    /\ rsp' = [rsp EXCEPT ![r] = rs]
    /\ http' = [http EXCEPT ![r] = WriteReview(rs)]
    /\ pc' = [pc EXCEPT ![r] = "done"]
    /\ UNCHANGED <<p, ignore, body, ar, pod, i, patched, measured, logged, recorded,
                   calls>>
    /\ UNCHANGED patchVars
    /\ UNCHANGED ignoreVars
    /\ UNCHANGED mainVars

WebhookInit ==
    /\ Init
    /\ p.Template = EmptyTemplate
    /\ ignore = << >>

WebhookNext ==
    \E r \in Requests :
        \/ \E b \in Bodies, readFails \in BOOLEAN : AdmissionReviewWebhook(r, b, readFails)
        \/ \E rs \in Responses : ReviewerReview(r, rs)

WebhookSpec == WebhookInit /\ [][WebhookNext]_vars

\* ------------------------------------------------------------------------
\* A call of PodMutation.Patch on its own.
\* ------------------------------------------------------------------------
\* No review is under way.
NoReview ==
    /\ p = m
    /\ ignore = << >>
    /\ pc = [r \in Requests |-> "done"]
    /\ body = [r \in Requests |-> NoBody]
    /\ ar = [r \in Requests |-> EmptyRequest]
    /\ pod = [r \in Requests |-> EmptyPod]
    /\ i = [r \in Requests |-> 1]
    /\ patched = [r \in Requests |-> NoPatch]
    /\ rsp = [r \in Requests |-> EmptyResponse]
    /\ http = [r \in Requests |-> NoReply]
    /\ measured = EmptyBag
    /\ logged = [r \in Requests |-> << >>]
    /\ recorded = [r \in Requests |-> << >>]
    /\ calls = [r \in Requests |-> NoCalls]

PatchInit ==
    /\ m \in Mutations
    /\ original \in Originals
    /\ given = original
    /\ injected = EmptyPod
    /\ got = NoPatch
    /\ stage = "called"
    /\ NoReview
    /\ NoIgnoreCall
    /\ NoMain

\* m.Patch(original) from its first statement to its return; fail is the
\* library call that returns an error, if any.
PatchCall(fail) ==
    /\ stage = "called"
    /\ LET locals == PatchLocals(m, original, fail)
       IN  /\ original' = locals.original
           /\ injected' = locals.injected
    /\ got' \in Patch(m, original, fail)
    /\ stage' = "returned"
    /\ m' = PatchReceiver(m, original, fail)
    /\ UNCHANGED given
    /\ UNCHANGED reviewVars
    /\ UNCHANGED ignoreVars
    /\ UNCHANGED mainVars

PatchNext == \E fail \in PatchFailures : PatchCall(fail)

PatchSpec == PatchInit /\ [][PatchNext]_vars

\* ------------------------------------------------------------------------
\* A call of an ignore function on its own.
\* ------------------------------------------------------------------------
IgnoreInit ==
    /\ ignoreFn \in AnyIgnoreFuncs
    /\ ignorePod \in IgnoredPods
    /\ ignored = FALSE
    /\ ignoreStage = "called"
    /\ NoPatchCall
    /\ NoReview
    /\ NoMain

\* The call ignoreFn(ignorePod): the closure reads its argument, which it
\* got by value, and returns.
IgnoreCall ==
    /\ ignoreStage = "called"
    /\ ignored' = CallIgnore(ignoreFn, ignorePod)
    /\ ignoreStage' = "returned"
    /\ UNCHANGED <<ignoreFn, ignorePod>>
    /\ UNCHANGED reviewVars
    /\ UNCHANGED patchVars
    /\ UNCHANGED mainVars

IgnoreNext == IgnoreCall

IgnoreSpec == IgnoreInit /\ [][IgnoreNext]_vars

\* ------------------------------------------------------------------------
\* main: the two endpoints, each served by a function passed to g.Go of
\* an errgroup with a context, and the wait for both.
\* ------------------------------------------------------------------------
\* What the configuration file can be.
Configs == {"ok", "unreadable", "undecodable"}

ErrServerClosed == <<"http: Server closed">>

\* The errors a serve call returns by itself: the address cannot be
\* listened on, or accepting a connection fails.
ErrListen == <<"listen tcp: bind: address already in use">>
ErrAccept == <<"accept tcp: too many open files">>

\* What each g.Go function wraps the error of its serve call in.
ServeContext(e) ==
    IF e = "insecure" THEN "cannot serve insecure requests"
    ELSE "cannot serve webhook requests"

MainInit ==
    /\ config \in Configs
    /\ gpc = [e \in Endpoints |-> IF e = "insecure" THEN "start" ELSE "read"]
    /\ srv = [e \in Endpoints |-> "none"]
    /\ watch = [e \in Endpoints |-> "none"]
    /\ ctxDone = FALSE
    /\ firstErr = NoError
    /\ exit = NoError
    /\ NoPatchCall
    /\ NoIgnoreCall
    /\ NoReview

\* Mutant of Cancelled: an errgroup without a context (errgroup.Group{}),
\* which nothing cancels.
CancelledNever(done, err) == done

\* errgroup.WithContext: the context is cancelled the first time a
\* function passed to Go returns a non-nil error.
Cancelled(done, err) == done \/ err # NoError

\* The function of endpoint e returns err to the errgroup, which keeps the
\* first error returned to it and cancels the context.
GoReturn(e, err) ==
    /\ gpc' = [gpc EXCEPT ![e] = "returned"]
    /\ firstErr' = IF firstErr = NoError THEN err ELSE firstErr
    /\ ctxDone' = Cancelled(ctxDone, err)

\* ioutil.ReadFile(*config).
ReadConfig ==
    /\ exit = NoError
    /\ gpc["webhook"] = "read"
    /\ IF config = "unreadable"
       THEN GoReturn("webhook", ErrorsWrap(<<"open: no such file or directory">>,
                                           "cannot read configuration file"))
       ELSE /\ gpc' = [gpc EXCEPT !["webhook"] = "decode"]
            /\ UNCHANGED <<firstErr, ctxDone>>
    /\ UNCHANGED <<config, srv, watch, exit>>
    /\ UNCHANGED <<reviewVars, patchVars, ignoreVars>>

\* kubernetes.DecodePodMutation(data).
DecodeConfig ==
    /\ exit = NoError
    /\ gpc["webhook"] = "decode"
    /\ IF config = "undecodable"
       THEN GoReturn("webhook",
                     ErrorsWrap(ErrorsWrap(<<"couldn't get version/kind">>,
                                           "cannot decode PodMutation"),
                                "cannot decode configuration file"))
       ELSE /\ gpc' = [gpc EXCEPT !["webhook"] = "start"]
            /\ UNCHANGED <<firstErr, ctxDone>>
    /\ UNCHANGED <<config, srv, watch, exit>>
    /\ UNCHANGED <<reviewVars, patchVars, ignoreVars>>

\* The function of endpoint e makes its router and its http.Server and
\* starts the goroutine that waits for ctx.Done().
StartServer(e) ==
    /\ exit = NoError
    /\ gpc[e] = "start"
    /\ srv' = [srv EXCEPT ![e] = "new"]
    /\ watch' = [watch EXCEPT ![e] = "waiting"]
    /\ gpc' = [gpc EXCEPT ![e] = "listen"]
    /\ UNCHANGED <<config, ctxDone, firstErr, exit>>
    /\ UNCHANGED <<reviewVars, patchVars, ignoreVars>>

\* s.ListenAndServe() or s.ListenAndServeTLS(...) is called: it returns
\* ErrServerClosed when Shutdown was called before, an error when the
\* address cannot be listened on (bound is false), and serves otherwise.
ListenAndServe(e, bound) ==
    /\ exit = NoError
    /\ gpc[e] = "listen"
    /\ IF srv[e] = "closed"
       THEN /\ GoReturn(e, ErrorsWrap(ErrServerClosed, ServeContext(e)))
            /\ UNCHANGED srv
       ELSE IF ~bound
       THEN /\ GoReturn(e, ErrorsWrap(ErrListen, ServeContext(e)))
            /\ UNCHANGED srv
       ELSE /\ srv' = [srv EXCEPT ![e] = "serving"]
            /\ gpc' = [gpc EXCEPT ![e] = "serving"]
            /\ UNCHANGED <<firstErr, ctxDone>>
    /\ UNCHANGED <<config, watch, exit>>
    /\ UNCHANGED <<reviewVars, patchVars, ignoreVars>>

\* The serve call of endpoint e returns an error of its own.
ServeFails(e) ==
    /\ exit = NoError
    /\ gpc[e] = "serving"
    /\ srv[e] = "serving"
    /\ srv' = [srv EXCEPT ![e] = "failed"]
    /\ GoReturn(e, ErrorsWrap(ErrAccept, ServeContext(e)))
    /\ UNCHANGED <<config, watch, exit>>
    /\ UNCHANGED <<reviewVars, patchVars, ignoreVars>>

\* The serve call of endpoint e returns because Shutdown was called.
ServeClosed(e) ==
    /\ exit = NoError
    /\ gpc[e] = "serving"
    /\ srv[e] = "closed"
    /\ GoReturn(e, ErrorsWrap(ErrServerClosed, ServeContext(e)))
    /\ UNCHANGED <<config, srv, watch, exit>>
    /\ UNCHANGED <<reviewVars, patchVars, ignoreVars>>

\* The goroutine of endpoint e that waits for ctx.Done() calls
\* s.Shutdown(sctx).
Shutdown(e) ==
    /\ exit = NoError
    /\ watch[e] = "waiting"
    /\ ctxDone
    /\ srv' = [srv EXCEPT ![e] = "closed"]
    /\ watch' = [watch EXCEPT ![e] = "done"]
    /\ UNCHANGED <<config, gpc, ctxDone, firstErr, exit>>
    /\ UNCHANGED <<reviewVars, patchVars, ignoreVars>>

\* g.Wait() returns once both functions have returned, and
\* kingpin.FatalIfError reports its error and exits.
Wait ==
    /\ exit = NoError
    /\ \A e \in Endpoints : gpc[e] = "returned"
    /\ ctxDone' = TRUE
    /\ exit' = IF firstErr = NoError THEN NoError
               ELSE ErrorsWrap(firstErr, "cannot serve HTTP requests")
    /\ UNCHANGED <<config, gpc, srv, watch, firstErr>>
    /\ UNCHANGED <<reviewVars, patchVars, ignoreVars>>

MainNext ==
    \/ ReadConfig
    \/ DecodeConfig
    \/ \E e \in Endpoints : StartServer(e)
    \/ \E e \in Endpoints, bound \in BOOLEAN : ListenAndServe(e, bound)
    \/ \E e \in Endpoints : ServeFails(e)
    \/ \E e \in Endpoints : ServeClosed(e)
    \/ \E e \in Endpoints : Shutdown(e)
    \/ Wait

MainSpec == MainInit /\ [][MainNext]_vars

\* Every goroutine that can take a step takes one in the end; a serve call
\* need not ever fail by itself.
MainFairness ==
    /\ WF_vars(ReadConfig)
    /\ WF_vars(DecodeConfig)
    /\ \A e \in Endpoints :
           /\ WF_vars(StartServer(e))
           /\ WF_vars(\E bound \in BOOLEAN : ListenAndServe(e, bound))
           /\ WF_vars(ServeClosed(e))
           /\ WF_vars(Shutdown(e))
    /\ WF_vars(Wait)

MainLiveSpec == MainSpec /\ MainFairness

\* ------------------------------------------------------------------------
\* Properties.
\* ------------------------------------------------------------------------
\* Review was called for request r and has returned.
Reviewed(r) == pc[r] = "done" /\ calls[r].review = 1

\* A byte sequence no decoder accepts: empty, or not one JSON object.
Malformed(raw) == raw = << >> \/ raw[1] # "{" \/ raw[Len(raw)] # "}"

\* The request of r names the pod resource and its object decodes.
Decodable(r) ==
    /\ ar[r].Resource.Group = "" /\ ar[r].Resource.Version = "v1"
    /\ ar[r].Resource.Resource = "pods"
    /\ ~Malformed(ar[r].Object)

\* Some function of the ignore chain returns true for the pod of r.
SomeIgnores(r) == \E k \in 1..Len(ignore) : CallIgnore(ignore[k], pod[r])

\* The three shapes of a response.
AllowedUnmodified(rs) ==
    rs.Allowed /\ rs.Patch = << >> /\ rs.PatchType = "" /\ rs.Result = << >>

AllowedWithPatch(rs) ==
    rs.Allowed /\ rs.Patch # << >> /\ rs.PatchType = "JSONPatch" /\ rs.Result = << >>

Rejected(rs) ==
    /\ ~rs.Allowed /\ rs.Patch = << >> /\ rs.PatchType = ""
    /\ Len(rs.Result) = 1
    /\ rs.Result[1].Status = "Failure"
    /\ rs.Result[1].Reason \in {"Invalid", "InternalError"}
    /\ rs.Result[1].Message # << >>

RejectedFor(rs, reason) == Rejected(rs) /\ rs.Result[1].Reason = reason

\* C1: a request whose resource is not exactly the pod resource (group "",
\* version v1, resource pods) is rejected with Status Failure and Reason
\* Invalid, without patch or patch type, and neither an ignore function nor
\* Patch is ever called for it.
C1_NonPodRejected ==
    \A r \in Requests :
        (calls[r].review = 1
         /\ ~(ar[r].Resource.Group = "" /\ ar[r].Resource.Version = "v1"
              /\ ar[r].Resource.Resource = "pods"))
        => /\ calls[r].ignore = << >>
           /\ calls[r].patch = 0
           /\ pc[r] \in {"Review", "done"}
           /\ pc[r] = "done" => RejectedFor(rsp[r], "Invalid")

\* A request for pods of another group has been rejected.
C1_Witness ==
    \E r \in Requests :
        /\ Reviewed(r)
        /\ ar[r].Resource.Resource = "pods" /\ ar[r].Resource.Group = "extensions"
        /\ RejectedFor(rsp[r], "Invalid")

\* The message msg contains the part name.
Mentions(msg, name) == \E k \in 1..Len(msg) : msg[k] = name

\* C2 as stated: the message of the rejection of a non-pod resource names
\* the expected resource kind (pods) and the observed one.
C2_MessageNamesKinds ==
    \A r \in Requests :
        (Reviewed(r) /\ ar[r].Resource # resourcePod)
        => /\ Mentions(rsp[r].Result[1].Message, "pods")
           /\ Mentions(rsp[r].Result[1].Message, ar[r].Resource.Resource)

\* C2 amended: the message of the rejection of a non-pod resource is the
\* fixed text "cannot review non-pod resource"; the expected and the
\* observed resource are written to the log entry of the rejection only.
C2_FixedMessage ==
    \A r \in Requests :
        (Reviewed(r) /\ ar[r].Resource # resourcePod)
        => /\ RejectedFor(rsp[r], "Invalid")
           /\ rsp[r].Result[1].Message = <<"cannot review non-pod resource">>
           /\ Len(logged[r]) = 1
           /\ logged[r][1].msg = "cannot review non-pod resource"
           /\ logged[r][1].fields =
                  {<<"expected", <<"", "/", "v1", ", Resource=", "pods">>>>,
                   <<"observed", <<ar[r].Resource.Group, "/", ar[r].Resource.Version,
                                   ", Resource=", ar[r].Resource.Resource>>>>}

\* A request for configmaps has been rejected.
C2_Witness ==
    \E r \in Requests :
        /\ Reviewed(r)
        /\ ar[r].Resource.Resource = "configmaps"
        /\ Rejected(rsp[r])

\* C3: a request for the pod resource whose object is empty or malformed is
\* rejected with Reason Invalid and the message "cannot decode object as a
\* pod: " followed by the decoder's error, and Patch is never called.
C3_DecodeRejected ==
    \A r \in Requests :
        (calls[r].review = 1 /\ ar[r].Resource = resourcePod /\ Malformed(ar[r].Object))
        => /\ calls[r].patch = 0
           /\ pc[r] \in {"Review", "Decode", "done"}
           /\ pc[r] = "done"
              => /\ RejectedFor(rsp[r], "Invalid")
                 /\ rsp[r].Result[1].Message =
                        <<"cannot decode object as a pod", ": ",
                          "couldn't get version/kind; json parse error: ",
                          IF ar[r].Object = << >>
                          THEN "unexpected end of JSON input"
                          ELSE "invalid character 'i' looking for beginning of value">>

\* A request with an empty object has been rejected.
C3_Witness ==
    \E r \in Requests :
        /\ Reviewed(r)
        /\ ar[r].Resource = resourcePod
        /\ ar[r].Object = << >>
        /\ RejectedFor(rsp[r], "Invalid")

\* C4: when some function of the ignore chain returns true for the decoded
\* pod, Review returns the allowed-unmodified response and Patch is never
\* called, whatever Patch would return.
C4_IgnoredUnmodified ==
    \A r \in Requests :
        (calls[r].review = 1 /\ Decodable(r) /\ pc[r] \in {"Ignore", "done"}
         /\ SomeIgnores(r))
        => /\ calls[r].patch = 0
           /\ patched[r] = NoPatch
           /\ pc[r] = "done" => AllowedUnmodified(rsp[r])

\* A pod was ignored by the second function of the chain, under a mutation
\* that would have patched it.
C4_Witness ==
    \E r \in Requests :
        /\ Reviewed(r) /\ Decodable(r)
        /\ Len(ignore) = 2
        /\ ~CallIgnore(ignore[1], pod[r]) /\ CallIgnore(ignore[2], pod[r])
        /\ \A out \in Patch(p, pod[r], "none") : out.bytes # <<"[", "]">>
        /\ AllowedUnmodified(rsp[r])

\* The index of the first function of the chain that returns true.
FirstIgnoring(r) ==
    CHOOSE k \in 1..Len(ignore) :
        /\ CallIgnore(ignore[k], pod[r])
        /\ \A j \in 1..(k - 1) : ~CallIgnore(ignore[j], pod[r])

\* C5: the ignore functions are called in chain order, each at most once,
\* and none after the first that returns true: the calls made are those of
\* the functions 1..k, all but the last of which returned false, and once
\* Review has returned k is the index of the first function returning true
\* (or the length of the chain when none does).
C5_ChainOrder ==
    \A r \in Requests :
        LET called == calls[r].ignore
        IN  /\ Len(called) <= Len(ignore)
            /\ \A k \in 1..Len(called) : called[k] = k
            /\ \A k \in 1..(Len(called) - 1) : ~CallIgnore(ignore[k], pod[r])
            /\ (Reviewed(r) /\ Decodable(r))
               => Len(called) = IF SomeIgnores(r) THEN FirstIgnoring(r) ELSE Len(ignore)

\* The first of two functions returned true and the second was not called.
C5_Witness ==
    \E r \in Requests :
        /\ Reviewed(r) /\ Decodable(r)
        /\ Len(ignore) = 2
        /\ CallIgnore(ignore[1], pod[r]) /\ CallIgnore(ignore[2], pod[r])
        /\ calls[r].ignore = <<1>>

\* C6: when Patch returns an error, Review returns a rejection with Reason
\* InternalError and the message "cannot patch pod: " followed by the
\* error, without patch or patch type, and Patch returned no bytes with
\* the error.
C6_PatchError ==
    \A r \in Requests :
        (pc[r] = "done" /\ calls[r].patch = 1 /\ patched[r].err # NoError)
        => /\ RejectedFor(rsp[r], "InternalError")
           /\ rsp[r].Result[1].Message = <<"cannot patch pod", ": ">> \o patched[r].err
           /\ patched[r].bytes = << >>

\* Patch failed to merge the metadata and Review has returned.
C6_Witness ==
    \E r \in Requests :
        /\ Reviewed(r) /\ calls[r].patch = 1
        /\ patched[r].err = <<"cannot inject pod metadata", ": ", "boom">>
        /\ Rejected(rsp[r])

\* C7: for a request that passes the resource check, decodes, is ignored by
\* no function and whose Patch returns no error, Review returns Allowed
\* with exactly the bytes Patch returned, the patch type JSONPatch and no
\* result.
C7_Mutated ==
    \A r \in Requests :
        (Reviewed(r) /\ Decodable(r) /\ ~SomeIgnores(r) /\ patched[r].err = NoError)
        => /\ calls[r].patch = 1
           /\ rsp[r].Allowed
           /\ rsp[r].Patch = patched[r].bytes
           /\ rsp[r].PatchType = "JSONPatch"
           /\ rsp[r].Result = << >>

\* A pod was patched with at least one operation.
C7_Witness ==
    \E r \in Requests :
        /\ Reviewed(r) /\ Decodable(r) /\ ~SomeIgnores(r)
        /\ patched[r].err = NoError
        /\ Len(patched[r].bytes) > 2
        /\ rsp[r].Patch = patched[r].bytes

\* C8: every call of Review returns a response of exactly one shape,
\* allowed-unmodified, allowed-with-patch or rejected, and the handler
\* writes it.
C8_OneShape ==
    \A r \in Requests :
        Reviewed(r)
        => /\ Cardinality({s \in {"unmodified", "patch", "rejected"} :
                   CASE s = "unmodified" -> AllowedUnmodified(rsp[r])
                     [] s = "patch" -> AllowedWithPatch(rsp[r])
                     [] s = "rejected" -> Rejected(rsp[r])}) = 1
           /\ http[r].code = 200
           /\ http[r].body = EncodeResponse(rsp[r])

\* A rejection after a failed Patch has been returned.
C8_Witness ==
    \E r \in Requests :
        /\ Reviewed(r) /\ calls[r].patch = 1
        /\ RejectedFor(rsp[r], "InternalError")

\* C9: every call of Review records the measurement exactly once before it
\* returns, tagged "error" exactly for rejections, "ignored" exactly for
\* allowed-unmodified and "mutated" exactly for allowed-with-patch
\* responses; nothing is recorded otherwise, so the number of measurements
\* is the number of completed reviews.
C9_RecordedOnce ==
    /\ \A r \in Requests :
           IF Reviewed(r)
           THEN /\ Len(recorded[r]) = 1
                /\ recorded[r][1] = "error" <=> Rejected(rsp[r])
                /\ recorded[r][1] = "ignored" <=> AllowedUnmodified(rsp[r])
                /\ recorded[r][1] = "mutated" <=> AllowedWithPatch(rsp[r])
                /\ BagIn([kind |-> <<ar[r].Kind.Group, "/", ar[r].Kind.Version, ", Kind=",
                                     ar[r].Kind.Kind>>,
                          namespace |-> ar[r].Namespace, name |-> ar[r].Name,
                          result |-> recorded[r][1]], measured)
           ELSE recorded[r] = << >>
    /\ BagCardinality(measured) = Cardinality({r \in Requests : Reviewed(r)})

\* A review that failed the resource check has been recorded as an error.
C9_Witness ==
    \E r \in Requests :
        /\ Reviewed(r)
        /\ ar[r].Resource # resourcePod
        /\ recorded[r] = <<"error">>
        /\ BagCardinality(measured) >= 1

\* C10: the handler calls Review at most once per request, and only when
\* the body was read, is not empty, decodes and holds a request; in every
\* other case it answers 400 with the message of the failed check and
\* neither calls Review nor records a measurement.
C10_WebhookGuards ==
    \A r \in Requests :
        /\ calls[r].review <= 1
        /\ calls[r].review = 1
           => /\ body[r].err = NoError
              /\ body[r].b # << >>
              /\ ~Malformed(body[r].b)
              /\ Len(body[r].b) > 2 /\ body[r].b[2] = "request"
        /\ (pc[r] = "done" /\ calls[r].review = 0)
           => /\ http[r].code = 400
              /\ recorded[r] = << >>
              /\ rsp[r] = EmptyResponse
              /\ http[r].body =
                     IF body[r].err # NoError
                     THEN <<"cannot read request body", ": ">> \o body[r].err \o <<"\n">>
                     ELSE IF body[r].b = << >>
                     THEN <<"cannot parse empty request body", "\n">>
                     ELSE IF Malformed(body[r].b)
                     THEN <<"cannot decode request body as admission review", ": ",
                            "couldn't get version/kind; json parse error: ",
                            "invalid character 'i' looking for beginning of value", "\n">>
                     ELSE <<"admission review must contain a request", "\n">>
        /\ pc[r] = "done" => http[r].code \in {200, 400}
        /\ (pc[r] = "done" /\ http[r].code = 400) => calls[r].review = 0

\* An empty body has been answered with 400.
C10_Witness ==
    \E r \in Requests :
        /\ pc[r] = "done"
        /\ body[r] = [b |-> << >>, err |-> NoError]
        /\ http[r] = [code |-> 400, body |-> <<"cannot parse empty request body", "\n">>]
        /\ calls[r].review = 0
        /\ measured = EmptyBag

\* The response carried by the review that the token sequence bytes holds:
\* uid and allowed are always written, patch, patchType and status only
\* when set.
ResponseWritten(bytes) ==
    LET at(tok) ==
            IF \E k \in 1..Len(bytes) : bytes[k] = tok
            THEN CHOOSE k \in 1..Len(bytes) :
                     bytes[k] = tok /\ \A j \in 1..(k - 1) : bytes[j] # tok
            ELSE 0
        pa == at("patch")
        pt == at("patchType")
        st == at("status")
        last == IF pt # 0 THEN pt - 1 ELSE IF st # 0 THEN st - 1 ELSE Len(bytes) - 1
    IN  [UID |-> bytes[4],
         Allowed |-> bytes[6] = "true",
         Patch |-> IF pa = 0 THEN << >> ELSE SubSeq(bytes, pa + 1, last),
         PatchType |-> IF pt = 0 THEN "" ELSE bytes[pt + 1],
         Result |-> IF st = 0 THEN << >>
                    ELSE <<[Status |-> bytes[st + 1], Reason |-> bytes[st + 3],
                            Message |-> SubSeq(bytes, st + 5, Len(bytes) - 1)]>>]

\* C11: for every HTTP request with a valid envelope, whatever the Reviewer
\* and whatever response it returns, the handler answers 200 with a review
\* whose response is the one the Reviewer returned, unchanged: same uid,
\* allowed flag, patch, patch type and result.
C11_ResponseUnchanged ==
    \A r \in Requests :
        (pc[r] = "done" /\ calls[r].review = 1)
        => /\ http[r].code = 200
           /\ http[r].body[1] = "{" /\ http[r].body[2] = "response"
           /\ http[r].body[3] = "uid" /\ http[r].body[5] = "allowed"
           /\ ResponseWritten(http[r].body) = rsp[r]

\* A Reviewer returned a response of no shape PodMutator produces (allowed,
\* with a uid, a patch without patch type and a result) and the handler
\* has written it.
C11_Witness ==
    \E r \in Requests :
        /\ pc[r] = "done" /\ calls[r].review = 1
        /\ rsp[r].UID = "cooluid" /\ rsp[r].Allowed
        /\ rsp[r].Patch = <<"coolpatch">> /\ rsp[r].PatchType = ""
        /\ Len(rsp[r].Result) = 1
        /\ ResponseWritten(http[r].body) = rsp[r]

\* Patch has returned without an error.
Patched == stage = "returned" /\ got.err = << >>

\* C12: Patch never changes the pod it is given: once it has returned, with
\* a patch or with an error, the original pod equals the pod it was called
\* with.
C12_OriginalUnchanged == stage = "returned" => original = given

\* Patch has merged an annotation into its copy and returned; the pod it
\* was given is as before.
C12_Witness ==
    /\ Patched
    /\ injected.annotations # given.annotations
    /\ original = given

C14_OverwriteSemantics ==
    (Patched /\ m.Strategy.Overwrite) =>
        LET t == m.Template
        IN  /\ \A k \in (DOMAIN t.annotations) \cap (DOMAIN given.annotations) :
                   injected.annotations[k] = t.annotations[k]
            /\ \A k \in (DOMAIN t.labels) \cap (DOMAIN given.labels) :
                   injected.labels[k] = t.labels[k]
            /\ (t.hostNetwork /\ given.hostNetwork) => injected.hostNetwork
            /\ (t.dnsPolicy # "" /\ given.dnsPolicy # "")
               => injected.dnsPolicy = t.dnsPolicy

\* With overwrite, a pod with dnsPolicy ClusterFirst and the label
\* cool=true was merged with a template setting dnsPolicy None and the
\* label cool=nope; the merged pod holds the template's values.
C14_Witness ==
    /\ Patched
    /\ m.Strategy.Overwrite
    /\ given.dnsPolicy = "ClusterFirst" /\ m.Template.dnsPolicy = "None"
    /\ injected.dnsPolicy = "None"
    /\ "cool" \in DOMAIN given.labels /\ given.labels["cool"] = "true"
    /\ "cool" \in DOMAIN m.Template.labels
    /\ injected.labels["cool"] = "nope"

\* C15 as stated: without overwrite and without append, every map entry
\* (whatever its value), scalar, sequence and nested field that is set on
\* the original pod has the same value in the merged pod.
C15_PreserveSemantics ==
    (Patched /\ ~m.Strategy.Overwrite /\ ~m.Strategy.Append) =>
        /\ \A k \in DOMAIN given.annotations :
               injected.annotations[k] = given.annotations[k]
        /\ \A k \in DOMAIN given.labels : injected.labels[k] = given.labels[k]
        /\ given.hostNetwork => injected.hostNetwork
        /\ given.dnsPolicy # "" => injected.dnsPolicy = given.dnsPolicy
        /\ given.containers # << >> => injected.containers = given.containers
        /\ given.dnsConfig # << >>
           => /\ injected.dnsConfig # << >>
              /\ given.dnsConfig[1].nameservers # << >>
                 => injected.dnsConfig[1].nameservers = given.dnsConfig[1].nameservers
              /\ given.dnsConfig[1].searches # << >>
                 => injected.dnsConfig[1].searches = given.dnsConfig[1].searches

\* C16 as stated: with append, whether overwriting or not, every sequence
\* that the template sets holds in the merged pod the original's elements
\* in their order followed by the template's elements in theirs.
C16_AppendSemantics ==
    (Patched /\ m.Strategy.Append) =>
        LET t == m.Template
            nameservers(d) == IF d = << >> THEN << >> ELSE d[1].nameservers
            searches(d) == IF d = << >> THEN << >> ELSE d[1].searches
        IN  /\ t.containers # << >>
               => injected.containers = given.containers \o t.containers
            /\ nameservers(t.dnsConfig) # << >>
               => nameservers(injected.dnsConfig)
                      = nameservers(given.dnsConfig) \o nameservers(t.dnsConfig)
            /\ searches(t.dnsConfig) # << >>
               => searches(injected.dnsConfig)
                      = searches(given.dnsConfig) \o searches(t.dnsConfig)

\* C17: without append, a sequence that is not empty in the original pod
\* and in the template is the template's sequence in the merged pod when
\* overwriting and the original's otherwise.
C17_ReplaceWholesale ==
    (Patched /\ ~m.Strategy.Append) =>
        LET t == m.Template
        IN  /\ (t.containers # << >> /\ given.containers # << >>)
               => injected.containers =
                      IF m.Strategy.Overwrite THEN t.containers ELSE given.containers
            /\ (t.dnsConfig # << >> /\ given.dnsConfig # << >>)
               => /\ (t.dnsConfig[1].nameservers # << >>
                      /\ given.dnsConfig[1].nameservers # << >>)
                     => injected.dnsConfig[1].nameservers =
                            IF m.Strategy.Overwrite THEN t.dnsConfig[1].nameservers
                            ELSE given.dnsConfig[1].nameservers
                  /\ (t.dnsConfig[1].searches # << >>
                      /\ given.dnsConfig[1].searches # << >>)
                     => injected.dnsConfig[1].searches =
                            IF m.Strategy.Overwrite THEN t.dnsConfig[1].searches
                            ELSE given.dnsConfig[1].searches

\* Without overwrite and without append, a pod with one container and
\* nameservers was merged with a template holding another container and
\* other nameservers; the merged pod holds the original's.
C17_Witness ==
    /\ Patched
    /\ ~m.Strategy.Append /\ ~m.Strategy.Overwrite
    /\ given.containers # << >> /\ m.Template.containers # << >>
    /\ given.containers # m.Template.containers
    /\ injected.containers = given.containers
    /\ given.dnsConfig # << >> /\ m.Template.dnsConfig # << >>
    /\ given.dnsConfig[1].nameservers = <<"8.8.8.8">>
    /\ injected.dnsConfig[1].nameservers = <<"8.8.8.8">>

\* C18 as stated: under every strategy, a map or nested object that the
\* original pod and the template both set is merged member by member: every
\* key or field that the original sets and the template does not keeps the
\* original's value in the merged pod.
C18_FieldByField ==
    Patched =>
        LET t == m.Template
        IN  /\ t.annotations # << >>
               => \A k \in (DOMAIN given.annotations) \ (DOMAIN t.annotations) :
                      /\ k \in DOMAIN injected.annotations
                      /\ injected.annotations[k] = given.annotations[k]
            /\ t.labels # << >>
               => \A k \in (DOMAIN given.labels) \ (DOMAIN t.labels) :
                      /\ k \in DOMAIN injected.labels
                      /\ injected.labels[k] = given.labels[k]
            /\ (t.dnsConfig # << >> /\ given.dnsConfig # << >>)
               => /\ injected.dnsConfig # << >>
                  /\ t.dnsConfig[1].nameservers = << >>
                     => injected.dnsConfig[1].nameservers = given.dnsConfig[1].nameservers
                  /\ t.dnsConfig[1].searches = << >>
                     => injected.dnsConfig[1].searches = given.dnsConfig[1].searches

PathStarts(bytes) ==
    {k \in 3..Len(bytes) :
        bytes[k] = "path" /\ bytes[k - 2] = "op"
        /\ bytes[k - 1] \in {"add", "remove", "replace"}}

PathAt(bytes, k) ==
    LET n == CHOOSE x \in 0..Len(bytes) :
                 /\ \A j \in 1..x : k + 2 * j <= Len(bytes) /\ bytes[k + 2 * j - 1] = "/"
                 /\ ~(k + 2 * (x + 1) <= Len(bytes) /\ bytes[k + 2 * x + 1] = "/")
    IN  SubSeq(bytes, k + 1, k + 2 * n)

\* The names of the patches' paths in the byte order of Go's string
\* comparison, and that order on path strings.
ByteOrder ==
    <<"/", "0", "1", "10", "11", "2", "3", "4", "5", "6", "7", "8", "9",
      "annotations", "containers", "cool", "creationTimestamp", "dnsConfig",
      "dnsPolicy", "hostNetwork", "image", "labels", "metadata", "name",
      "nameservers", "resources", "searches", "spec", "status", "supercool">>

RECURSIVE LexLeq(_, _)
LexLeq(s, t) ==
    IF s = << >> THEN TRUE
    ELSE IF t = << >> THEN FALSE
    ELSE IF Head(s) = Head(t) THEN LexLeq(Tail(s), Tail(t))
    ELSE \E j, k \in 1..Len(ByteOrder) :
             j < k /\ ByteOrder[j] = Head(s) /\ ByteOrder[k] = Head(t)

\* C20: the operations of every patch Patch returns are in non-decreasing
\* lexical order of their path strings: the path of an operation is less
\* than or equal to the path of every operation after it.
C20_SortedByPath ==
    Patched =>
        \A j, k \in PathStarts(got.bytes) :
            j < k => LexLeq(PathAt(got.bytes, j), PathAt(got.bytes, k))

\* Patch returned add /spec/dnsConfig before replace /spec/dnsPolicy, after
\* an operation on the metadata.
C20_Witness ==
    /\ Patched
    /\ \E h, j, k \in PathStarts(got.bytes) :
           /\ h < j /\ j < k
           /\ PathAt(got.bytes, h)[2] = "metadata"
           /\ got.bytes[j - 1] = "add"
           /\ PathAt(got.bytes, j) = <<"/", "spec", "/", "dnsConfig">>
           /\ got.bytes[k - 1] = "replace"
           /\ PathAt(got.bytes, k) = <<"/", "spec", "/", "dnsPolicy">>

\* The operations of the patch the call returned, as the diff emitted them.
Emitted == CreatePatch(ToJSON(given), ToJSON(injected))

AppendedAdds(path, n, added) ==
    {NewPatch("add", IndexPath(path, n + j), added[j]) : j \in 1..Len(added)}

\* The encodings of the patches that hold exactly the operations in ops.
PatchesOf(ops) == {MarshalPatch(sorted) : sorted \in SortByPath(ops)}

\* C22: when appending (append=true) the k elements of a sequence of the
\* template to the n elements of that sequence of the original is all the
\* merge did, the patch holds exactly k add operations, at the indices
\* n, n+1, ..., n+k-1 of the sequence, each with the whole appended element
\* as its value.  The sequences are the containers and the nameservers.
C22_AppendAdds ==
    (Patched /\ m.Strategy.Append) =>
        /\ injected = [given EXCEPT !.containers = @ \o m.Template.containers]
            => got.bytes \in
                 PatchesOf(AppendedAdds(<<"spec", "containers">>,
                                        Len(given.containers),
                                        [j \in 1..Len(m.Template.containers) |->
                                            ContainerJSON(m.Template.containers[j])]))
        /\ (/\ given.dnsConfig # << >>
            /\ m.Template.dnsConfig # << >>
            /\ injected =
                 [given EXCEPT !.dnsConfig[1].nameservers =
                                  @ \o m.Template.dnsConfig[1].nameservers])
            => got.bytes \in
                 PatchesOf(AppendedAdds(<<"spec", "dnsConfig", "nameservers">>,
                                        Len(given.dnsConfig[1].nameservers),
                                        StringList(m.Template.dnsConfig[1].nameservers).a))

\* C22, with its cases named apart (not part of the claim's statement):
\* the same holds when the original sequence is not empty and no appended
\* element equals an element of the original sequence.
C22_AppendAddsDistinct ==
    (Patched /\ m.Strategy.Append) =>
        /\ (/\ injected = [given EXCEPT !.containers = @ \o m.Template.containers]
            /\ given.containers # << >>
            /\ \A j \in 1..Len(m.Template.containers) :
                   \A k \in 1..Len(given.containers) :
                       m.Template.containers[j] # given.containers[k])
            => got.bytes \in
                 PatchesOf(AppendedAdds(<<"spec", "containers">>,
                                        Len(given.containers),
                                        [j \in 1..Len(m.Template.containers) |->
                                            ContainerJSON(m.Template.containers[j])]))
        /\ (/\ given.dnsConfig # << >>
            /\ m.Template.dnsConfig # << >>
            /\ given.dnsConfig[1].nameservers # << >>
            /\ injected =
                 [given EXCEPT !.dnsConfig[1].nameservers =
                                  @ \o m.Template.dnsConfig[1].nameservers])
            => got.bytes \in
                 PatchesOf(AppendedAdds(<<"spec", "dnsConfig", "nameservers">>,
                                        Len(given.dnsConfig[1].nameservers),
                                        StringList(m.Template.dnsConfig[1].nameservers).a))

\* The template sets one annotation, key k with value v, and nothing else.
OneAnnotation(template, k, v) ==
    template = [EmptyPod EXCEPT !.annotations = (k :> v)]

\* C23: under the default strategy, a template that sets one annotation
\* and nothing else, patched into a pod that has annotations but not that
\* key, gives a patch of exactly one operation: an add at the key's path
\* under /metadata/annotations with the template's value.
C23_AddAnnotation ==
    \A k \in {"cool", "supercool"}, v \in {"true", "nope", "alsotrue"} :
        (/\ Patched
         /\ m.Strategy = [Overwrite |-> FALSE, Append |-> FALSE]
         /\ OneAnnotation(m.Template, k, v)
         /\ given.annotations # << >>
         /\ k \notin DOMAIN given.annotations)
        => got.bytes =
             <<"[", "{", "op", "add", "path", "/", "metadata", "/", "annotations",
               "/", k, "value", v, "}", "]">>

\* The annotation supercool=alsotrue was added to a pod whose annotations
\* held the key cool only.
C23_Witness ==
    /\ Patched
    /\ m.Strategy = [Overwrite |-> FALSE, Append |-> FALSE]
    /\ OneAnnotation(m.Template, "supercool", "alsotrue")
    /\ given.annotations = ("cool" :> "true")
    /\ injected.annotations = ("cool" :> "true") @@ ("supercool" :> "alsotrue")
    /\ got.bytes =
         <<"[", "{", "op", "add", "path", "/", "metadata", "/", "annotations",
           "/", "supercool", "value", "alsotrue", "}", "]">>

\* Whether the JSON value v has something at path, and what it has there.
RECURSIVE Has(_, _)
Has(v, path) ==
    IF path = << >> THEN TRUE
    ELSE CASE v.t = "object" ->
                /\ Head(path) \in DOMAIN v.m
                /\ Has(v.m[Head(path)], Tail(path))
           [] v.t = "array" ->
                \E k \in 1..Len(v.a) : Itoa[k] = Head(path) /\ Has(v.a[k], Tail(path))
           [] OTHER -> FALSE

RECURSIVE At(_, _)
At(v, path) ==
    IF path = << >> THEN v
    ELSE IF v.t = "object" THEN At(v.m[Head(path)], Tail(path))
    ELSE At(v.a[CHOOSE k \in 1..Len(v.a) : Itoa[k] = Head(path)], Tail(path))

\* The paths of the JSON value v, the empty path of v itself included.
RECURSIVE PathsOf(_)
PathsOf(v) ==
    {<< >>}
    \cup (CASE v.t = "object" ->
                UNION {{<<k>> \o rest : rest \in PathsOf(v.m[k])} : k \in DOMAIN v.m}
            [] v.t = "array" ->
                UNION {{<<Itoa[k]>> \o rest : rest \in PathsOf(v.a[k])}
                         : k \in 1..Len(v.a)}
            [] OTHER -> {})

Leaf(v) == v.t \in {"string", "bool", "null"}

Parent(path) == SubSeq(path, 1, Len(path) - 1)

\* C24: the kind of every operation of a returned patch is determined by
\* the two serialized pods.  An add is at a path the merged pod has and
\* the original lacks, a remove at a path the original has and the merged
\* pod lacks, a replace at a path both have with different values; and
\* under an object or a sequence both have, every path only the merged
\* pod has gets an add, every path only the original has gets a remove,
\* every leaf that differs gets a replace, and a path with equal values
\* gets no operation.
C24_KindsDetermined ==
    Patched =>
        LET a == ToJSON(given)
            b == ToJSON(injected)
        IN  /\ \A o \in Emitted :
                   CASE o.op = "add" ->
                            ~Has(a, o.path) /\ Has(b, o.path) /\ o.value = At(b, o.path)
                     [] o.op = "remove" -> Has(a, o.path) /\ ~Has(b, o.path)
                     [] o.op = "replace" ->
                            /\ Has(a, o.path) /\ Has(b, o.path)
                            /\ At(a, o.path) # At(b, o.path)
                            /\ o.value = At(b, o.path)
            /\ \A path \in (PathsOf(a) \cup PathsOf(b)) \ {<< >>} :
                   (/\ Has(a, Parent(path)) /\ Has(b, Parent(path))
                    /\ At(a, Parent(path)).t = At(b, Parent(path)).t) =>
                       LET kinds == {o.op : o \in {e \in Emitted : e.path = path}}
                       IN  CASE ~Has(a, path) -> kinds = {"add"}
                             [] ~Has(b, path) -> kinds = {"remove"}
                             [] At(a, path) = At(b, path) -> kinds = {}
                             [] Leaf(At(a, path)) \/ Leaf(At(b, path)) ->
                                    kinds = {"replace"}
                             [] OTHER -> kinds = {}

\* C24, for the members of objects and the elements of sequences of equal
\* lengths only (not part of the claim's statement): outside sequences
\* whose length the merge changed, the kinds are as the claim says.
C24_KindsOutsideResizedSequences ==
    Patched =>
        LET a == ToJSON(given)
            b == ToJSON(injected)
            Resized(path) ==
                \E k \in 1..Len(path) :
                    LET q == SubSeq(path, 1, k - 1)
                    IN  /\ Has(a, q) /\ Has(b, q)
                        /\ At(a, q).t = "array" /\ At(b, q).t = "array"
                        /\ Len(At(a, q).a) # Len(At(b, q).a)
        IN  /\ \A o \in Emitted :
                   ~Resized(o.path) =>
                   CASE o.op = "add" ->
                            ~Has(a, o.path) /\ Has(b, o.path) /\ o.value = At(b, o.path)
                     [] o.op = "remove" -> Has(a, o.path) /\ ~Has(b, o.path)
                     [] o.op = "replace" ->
                            /\ Has(a, o.path) /\ Has(b, o.path)
                            /\ At(a, o.path) # At(b, o.path)
                            /\ o.value = At(b, o.path)
            /\ \A path \in (PathsOf(a) \cup PathsOf(b)) \ {<< >>} :
                   (/\ Has(a, Parent(path)) /\ Has(b, Parent(path))
                    /\ At(a, Parent(path)).t = At(b, Parent(path)).t
                    /\ ~Resized(path)) =>
                       LET kinds == {o.op : o \in {e \in Emitted : e.path = path}}
                       IN  CASE ~Has(a, path) -> kinds = {"add"}
                             [] ~Has(b, path) -> kinds = {"remove"}
                             [] At(a, path) = At(b, path) -> kinds = {}
                             [] Leaf(At(a, path)) \/ Leaf(At(b, path)) ->
                                    kinds = {"replace"}
                             [] OTHER -> kinds = {}

\* The pod carries the annotation k=v: it has the key k, with the value v.
Carries(pd, k, v) == k \in DOMAIN pd.annotations /\ pd.annotations[k] = v

\* C25: IgnorePodsWithAnnotation(k, v) returns true exactly when the pod
\* carries an annotation with key k and value v; it returns false for
\* every other pod, the pods without the key k included.
C25_WithAnnotation ==
    (ignoreStage = "returned" /\ ignoreFn.fn = "IgnorePodsWithAnnotation")
        => (ignored <=> Carries(ignorePod, ignoreFn.k, ignoreFn.v))

\* C26: IgnorePodsWithoutAnnotation(k, v) returns true exactly when the
\* pod lacks the annotation k=v (it has no key k, or another value for
\* it), and false exactly when the pod carries k with the value v.
C26_WithoutAnnotation ==
    (ignoreStage = "returned" /\ ignoreFn.fn = "IgnorePodsWithoutAnnotation")
        => (ignored <=> ~Carries(ignorePod, ignoreFn.k, ignoreFn.v))

\* What Review returns for the request rq when it is the only request the
\* PodMutator reviews, the library call fail of Patch returning an error.
ReviewedAlone(rq, fail) ==
    IF NotPodResource(rq.Resource) THEN {ResourceRejection(rq.Resource)}
    ELSE LET d == DecodePod(rq.Object)
         IN  IF d.err # NoError THEN {DecodeRejection(d.err)}
             ELSE IF \E k \in 1..Len(ignore) : CallIgnore(ignore[k], d.pod)
             THEN {IgnoredResponse(rq)}
             ELSE {IF out.err # NoError THEN PatchRejection(out.err)
                   ELSE MutatedResponse(rq, out.bytes) : out \in Patch(p, d.pod, fail)}

\* Every review that has returned gave the response it gives alone.
AsAlone ==
    \A r \in DOMAIN pc :
        (pc[r] = "done" /\ calls[r].review = 1) =>
            \E fail \in PatchFailures :
                /\ rsp[r] \in ReviewedAlone(ar[r], fail)
                /\ calls[r].patch = 1 => (fail = "none" <=> patched[r].err = NoError)

\* C27: no step of Review or Patch changes the mutation (template and
\* strategy) or the ignore chain the PodMutator was constructed with,
\* however the reviews that share it interleave, and every review returns
\* the response it returns when its request is reviewed alone.
C27_SharedReadOnly ==
    /\ [][p' = p /\ ignore' = ignore]_vars
    /\ []AsAlone

\* Two reviews are under way at once under a mutation with a template and
\* a chain of two functions: one has returned its patch while the other is
\* in its loop over the chain.
C27_Witness ==
    /\ p.Template # EmptyTemplate
    /\ Len(ignore) = 2
    /\ \E r, q \in DOMAIN pc :
           /\ r # q
           /\ pc[r] = "done" /\ calls[r].patch = 1 /\ AllowedWithPatch(rsp[r])
           /\ pc[q] = "Ignore" /\ Len(calls[q].ignore) = 1

\* A function passed to g.Go has returned an error.
Failed == firstErr # NoError

\* C28: once a serve call has returned an error, or reading or decoding
\* the configuration has failed, the shared context is cancelled, no
\* endpoint goes on serving, and the process exits reporting that error;
\* and the webhook endpoint serves only with a configuration that was read
\* and decoded.
C28_SharedLifecycle ==
    /\ [](srv["webhook"] # "none" => config = "ok")
    /\ Failed ~> ctxDone
    /\ Failed ~> (\A e \in Endpoints : srv[e] # "serving")
    /\ Failed ~> (exit = ErrorsWrap(firstErr, "cannot serve HTTP requests"))

\* The configuration could not be decoded while the insecure endpoint was
\* serving: that endpoint was shut down, the webhook endpoint never had a
\* server, and the process exited reporting the decoding error.
C28_Witness ==
    /\ config = "undecodable"
    /\ srv["insecure"] = "closed" /\ watch["insecure"] = "done"
    /\ srv["webhook"] = "none"
    /\ ctxDone
    /\ firstErr[1] = "cannot decode configuration file"
    /\ exit = ErrorsWrap(firstErr, "cannot serve HTTP requests")

\* C29: every response Review returns carries the uid of the request it
\* answers, whether the pod was mutated or ignored or the request was
\* rejected.
C29_UidEchoed ==
    \A r \in Requests :
        Reviewed(r) => rsp[r].UID = ar[r].UID

\* C29, for the mutated path only (not part of the claim's statement): a
\* response that carries a patch carries the request's uid.
C29_UidEchoedWhenMutated ==
    \A r \in Requests :
        (Reviewed(r) /\ AllowedWithPatch(rsp[r])) => rsp[r].UID = ar[r].UID

\* RFC 6902: what applying one operation gives.  Invalid stands for an
\* operation that cannot be applied: its target (for remove and replace)
\* or the place it adds to does not exist.
Invalid == [t |-> "invalid", s |-> "", m |-> << >>, a |-> << >>]

\* The position an array index names, counted from 0; -1 for a name that
\* is no index.
IndexOf(name) ==
    IF \E k \in 1..Len(Itoa) : Itoa[k] = name
    THEN (CHOOSE k \in 1..Len(Itoa) : Itoa[k] = name) - 1
    ELSE -1

\* The operation o applied to the member or element name of v.
ApplyHere(v, name, o) ==
    CASE v.t = "object" ->
            (CASE o.op = "add" -> JObject((name :> o.value) @@ v.m)
               [] o.op = "remove" ->
                    IF name \in DOMAIN v.m
                    THEN JObject([k \in (DOMAIN v.m) \ {name} |-> v.m[k]])
                    ELSE Invalid
               [] o.op = "replace" ->
                    IF name \in DOMAIN v.m
                    THEN JObject([v.m EXCEPT ![name] = o.value])
                    ELSE Invalid)
      [] v.t = "array" ->
            LET n == IndexOf(name)
            IN  (CASE o.op = "add" ->
                        IF n >= 0 /\ n <= Len(v.a)
                        THEN JArray(SubSeq(v.a, 1, n) \o <<o.value>>
                                    \o SubSeq(v.a, n + 1, Len(v.a)))
                        ELSE Invalid
                   [] o.op = "remove" ->
                        IF n >= 0 /\ n < Len(v.a)
                        THEN JArray(SubSeq(v.a, 1, n) \o SubSeq(v.a, n + 2, Len(v.a)))
                        ELSE Invalid
                   [] o.op = "replace" ->
                        IF n >= 0 /\ n < Len(v.a)
                        THEN JArray([v.a EXCEPT ![n + 1] = o.value])
                        ELSE Invalid)
      [] OTHER -> Invalid

\* The operation o applied at path inside v.
RECURSIVE ApplyAt(_, _, _)
ApplyAt(v, path, o) ==
    IF Len(path) = 1 THEN ApplyHere(v, Head(path), o)
    ELSE IF v.t = "object" /\ Head(path) \in DOMAIN v.m
    THEN LET sub == ApplyAt(v.m[Head(path)], Tail(path), o)
         IN  IF sub = Invalid THEN Invalid
             ELSE JObject([v.m EXCEPT ![Head(path)] = sub])
    ELSE IF v.t = "array" /\ IndexOf(Head(path)) >= 0
            /\ IndexOf(Head(path)) < Len(v.a)
    THEN LET sub == ApplyAt(v.a[IndexOf(Head(path)) + 1], Tail(path), o)
         IN  IF sub = Invalid THEN Invalid
             ELSE JArray([v.a EXCEPT ![IndexOf(Head(path)) + 1] = sub])
    ELSE Invalid

\* The operations of a patch applied to v one after another; Invalid once
\* one of them cannot be applied.
RECURSIVE ApplyPatch(_, _)
ApplyPatch(v, ops) ==
    IF ops = << >> \/ v = Invalid THEN v
    ELSE ApplyPatch(ApplyAt(v, Head(ops).path, Head(ops)), Tail(ops))

\* The operations of the patch that was returned, in the order written.
Returned(sorted) == sorted \in SortByPath(Emitted) /\ MarshalPatch(sorted) = got.bytes

\* C30: round trip: the operations of a returned patch, applied one after
\* another in the order they are written in to the serialized original
\* pod, can each be applied and give the serialized merged pod.
C30_RoundTrip ==
    Patched =>
        \A sorted \in SortByPath(Emitted) :
            Returned(sorted) => ApplyPatch(ToJSON(given), sorted) = ToJSON(injected)

\* C30, for patches that touch no sequence whose length the merge changed
\* (not part of the claim's statement): these patches do round-trip.
C30_RoundTripOutsideResizedSequences ==
    (/\ Patched
     /\ Len(given.containers) = Len(injected.containers)
     /\ \/ given.dnsConfig = << >>
        \/ injected.dnsConfig = << >>
        \/ /\ Len(given.dnsConfig[1].nameservers)
                = Len(injected.dnsConfig[1].nameservers)
           /\ Len(given.dnsConfig[1].searches) = Len(injected.dnsConfig[1].searches))
    => \A sorted \in SortByPath(Emitted) :
           Returned(sorted) => ApplyPatch(ToJSON(given), sorted) = ToJSON(injected)

====
